---- MODULE Spec2Model ----
(***************************************************************************)
(* Model of the inverted-index tool                                        *)
(* (src/inverted_index/task_Nesterenko_Anton_inverted_index.py):           *)
(* build_inverted_index, InvertedIndex.query, StructStoragePolicy.dump and *)
(* StructStoragePolicy.load.                                               *)
(*                                                                         *)
(* Representation.  A str is the sequence of its code points, a bytes      *)
(* object the sequence of its bytes (0..255).  A dict is the sequence of   *)
(* its items in insertion order, which is the order Python iterates it in. *)
(* The order in which list(a_set) enumerates a set is not fixed by the     *)
(* language, so every enumeration is a possible outcome.  An exception is  *)
(* a result record whose status names the exception.                       *)
(***************************************************************************)
EXTENDS Integers, Sequences, FiniteSets, TLC

VARIABLES
    pc,         \* position in the run
    byteorder,  \* sys.byteorder of the machine: decides the "I" header format
    documents,  \* the id -> text mapping given to build_inverted_index
    index,      \* InvertedIndex._index: the term -> postings mapping
    disk,       \* content of the index file, NoFile when it does not exist
    dumped,     \* result of the last StructStoragePolicy.dump
    cut,        \* length the index file was truncated to, -1 when it was not
    loaded,     \* result of the last StructStoragePolicy.load
    words,      \* argument of the last InvertedIndex.query
    answer,     \* result of the last InvertedIndex.query
    corpus,     \* the corpus file given to load_documents
    read,       \* result of the last load_documents
    queryfile,  \* the rows of arguments.query_file
    output,     \* the lines callback_query has printed
    threads,    \* the query calls running concurrently on one index
    bank,       \* app.bank.asset_list of the asset web service
    history,    \* the requests the asset web service has answered
    cbr,        \* what the last request got from cbr.ru, and what it raised
    inflight,   \* the add requests being handled concurrently
    posts,      \* the rows of the questions file given to load_data
    stopwords,  \* the set load_stopwords returned
    parsed_data, \* the mapping load_data returned
    reply,      \* the last query and what proceed_query returned for it
    reader      \* StructStoragePolicy.load, one iteration of its loop at a time

indexVars == <<pc, byteorder, documents, index, disk, dumped, cut, loaded, words, answer>>

loaderVars == <<corpus, read>>

queryFileVars == <<queryfile, output>>

assetVars == <<bank, history, cbr, inflight>>

analyticsVars == <<posts, stopwords, parsed_data, reply>>

readerVars == <<reader>>

\* what the build, dump, load and query steps leave alone
otherVars == <<loaderVars, queryFileVars, threads, assetVars, analyticsVars, readerVars>>

vars ==
    <<indexVars, loaderVars, queryFileVars, threads, assetVars, analyticsVars, readerVars>>

(***************************************************************************)
(* Bounds of the model.                                                    *)
(***************************************************************************)
MaxDocs == 2        \* documents in a corpus
MaxTokens == 3      \* tokens in a corpus, over all documents
MaxQuery == 2       \* terms in a query
MaxTerms == 2       \* terms of an index given directly to InvertedIndex
MaxPostings == 2    \* postings, over all terms, of such an index

\* Code points used in terms: "a", "b" and a two-byte one (U+00E9).
Words == {<<97>>, <<233>>}
Terms == {<<97>>, <<97, 98>>, <<233>>}
\* Document ids of a corpus: int(row[0]) accepts a sign.
DocIds == {-1, 3, 65535}
\* Document ids of an index given directly to InvertedIndex.
CodecIds == {3, 65534, 65535}
ByteOrders == {"little", "big"}

\* A path holds no file, or a file with its bytes.
NoFile == [exists |-> FALSE, data |-> <<>>]
File(bytes) == [exists |-> TRUE, data |-> bytes]
\* A file already at the output path before dump runs.
OldFile == File(<<0, 0, 0, 0>>)
\* no value format was chosen
NoFmt == "None"
Space == 32
Minus == 45
Zero == 48

(***************************************************************************)
(* Sequences, dicts and sets.                                              *)
(***************************************************************************)
Range(s) == {s[i] : i \in 1..Len(s)}

Take(s, n) == SubSeq(s, 1, n)

Drop(s, n) == SubSeq(s, n + 1, Len(s))

RECURSIVE SumSeq(_)
SumSeq(s) == IF s = <<>> THEN 0 ELSE Head(s) + SumSeq(Tail(s))

\* max(...) of a non-empty collection
MaxOf(S) == LET x == CHOOSE y \in S : \A z \in S : z <= y IN x

Keys(d) == {d[i].key : i \in 1..Len(d)}

Lookup(d, k) == (CHOOSE i \in 1..Len(d) : d[i].key = k)

\* d[k]
DictGet(d, k) == d[Lookup(d, k)].value

\* d[k] = v : a new key goes last, an existing key keeps its place
DictSet(d, k, v) ==
    IF k \in Keys(d)
    THEN [d EXCEPT ![Lookup(d, k)] = [key |-> k, value |-> v]]
    ELSE Append(d, [key |-> k, value |-> v])

RECURSIVE ListOfSet(_)
\* list(s) for a set s: the set of the lists it may return
ListOfSet(S) ==
    IF S = {} THEN {<<>>}
    ELSE UNION {{<<x>> \o l : l \in ListOfSet(S \ {x})} : x \in S}

(***************************************************************************)
(* str.encode('utf8') and bytes.decode('utf8'), for code points below      *)
(* U+0800 (one- and two-byte forms).                                       *)
(***************************************************************************)
\* Mutant of EncodeChar: every character is cut down to seven bits.
EncodeCharAscii(c) == <<c % 128>>

EncodeChar(c) == IF c < 128 THEN <<c>> ELSE <<192 + (c \div 64), 128 + (c % 64)>>

RECURSIVE EncodeUtf8(_)
EncodeUtf8(s) == IF s = <<>> THEN <<>> ELSE EncodeChar(Head(s)) \o EncodeUtf8(Tail(s))

RECURSIVE DecodeUtf8(_)
\* [ok, value]: ok is FALSE where bytes.decode raises UnicodeDecodeError
DecodeUtf8(b) ==
    IF b = <<>> THEN [ok |-> TRUE, value |-> <<>>]
    ELSE IF b[1] < 128
    THEN LET rest == DecodeUtf8(Tail(b))
         IN  [ok |-> rest.ok, value |-> <<b[1]>> \o rest.value]
    ELSE IF b[1] >= 194 /\ b[1] <= 223 /\ Len(b) >= 2 /\ b[2] >= 128 /\ b[2] <= 191
    THEN LET rest == DecodeUtf8(Drop(b, 2))
         IN  [ok |-> rest.ok, value |-> <<(b[1] - 192) * 64 + (b[2] - 128)>> \o rest.value]
    ELSE [ok |-> FALSE, value |-> <<>>]

(***************************************************************************)
(* struct.pack and struct.unpack for the formats "H" and "I".              *)
(***************************************************************************)
\* the strict bound of the width test
WidthLimit == 65535

\* struct.calcsize
SizeOf(fmt) == IF fmt = "H" THEN 2 ELSE 4

\* struct.pack raises struct.error unless 0 <= x < 256 ^ size
Fits(fmt, x) ==
    IF fmt = "H" THEN x >= 0 /\ x <= 65535
    ELSE x >= 0 /\ (x \div 65536) <= 65535

RECURSIVE BigEndian(_, _)
BigEndian(x, n) == IF n = 0 THEN <<>> ELSE Append(BigEndian(x \div 256, n - 1), x % 256)

RECURSIVE FromBigEndian(_)
FromBigEndian(b) ==
    IF b = <<>> THEN 0 ELSE FromBigEndian(Take(b, Len(b) - 1)) * 256 + b[Len(b)]

Reverse(s) == [i \in 1..Len(s) |-> s[Len(s) + 1 - i]]

\* struct.pack("I", x): native byte order
PackNative(order, x) ==
    IF order = "big" THEN BigEndian(x, 4) ELSE Reverse(BigEndian(x, 4))

\* struct.unpack("I", b)
UnpackNative(order, b) ==
    IF order = "big" THEN FromBigEndian(b) ELSE FromBigEndian(Reverse(b))

RECURSIVE PackAllLittle(_, _)
\* Mutant of PackAll: "<" in place of ">", the values go out little-endian.
PackAllLittle(fmt, values) ==
    IF values = <<>> THEN <<>>
    ELSE Reverse(BigEndian(Head(values), SizeOf(fmt))) \o PackAllLittle(fmt, Tail(values))

RECURSIVE PackAll(_, _)
\* struct.pack(">" + fmt * len(values), *values)
PackAll(fmt, values) ==
    IF values = <<>> THEN <<>>
    ELSE BigEndian(Head(values), SizeOf(fmt)) \o PackAll(fmt, Tail(values))

RECURSIVE UnpackAll(_, _)
\* list(struct.unpack(">" + fmt * n, b)) for len(b) = n * size
UnpackAll(fmt, b) ==
    IF Len(b) < SizeOf(fmt) THEN <<>>
    ELSE <<FromBigEndian(Take(b, SizeOf(fmt)))>> \o UnpackAll(fmt, Drop(b, SizeOf(fmt)))

(***************************************************************************)
(* StructStoragePolicy.dump                                                *)
(***************************************************************************)
\* Mutant of dump_value_fmt: the bound is not strict.
dump_value_fmt_le(max_value) == IF max_value <= WidthLimit THEN "H" ELSE "I"

\* value_fmt = "H" if max_value < 65535 else "I"
dump_value_fmt(max_value) == IF max_value < WidthLimit THEN "H" ELSE "I"

RECURSIVE WriteRecords(_, _, _)
\* the loop over index.items(): each fio.write appends to the file; a pack
\* that raises ends the call and leaves what was written before it
WriteRecords(items, value_fmt, file) ==
    IF items = <<>> THEN [status |-> "ok", file |-> file]
    ELSE
        LET key == Head(items).key
            value == Head(items).value
            key_bytes == EncodeUtf8(key)
            f1 == file \o BigEndian(Len(key_bytes), 2) \o key_bytes
            f2 == f1 \o BigEndian(Len(value), SizeOf(value_fmt))
            f3 == f2 \o PackAll(value_fmt, value)
        IN  IF ~Fits("H", Len(key_bytes)) THEN [status |-> "struct.error", file |-> file]
            ELSE IF ~Fits(value_fmt, Len(value)) THEN [status |-> "struct.error", file |-> f1]
            ELSE IF \E i \in 1..Len(value) : ~Fits(value_fmt, value[i])
            THEN [status |-> "struct.error", file |-> f2]
            ELSE WriteRecords(Tail(items), value_fmt, f3)

\* max([max(v) for v in index.values()]) raises ValueError: max() of an
\* empty sequence
MaxRaises(idx) == idx = <<>> \/ \E i \in 1..Len(idx) : idx[i].value = <<>>

\* Mutant of dump_max_value: the largest id of the first posting list.
dump_max_value_first(idx) == MaxOf(Range(idx[1].value))

\* max([max(v) for v in index.values()])
dump_max_value(idx) == MaxOf(UNION {Range(idx[i].value) : i \in 1..Len(idx)})

\* the rest of dump once max_value is known: open(filepath, 'wb'), which
\* creates or truncates the file, then the header and the records
WriteFile(order, idx) ==
    LET max_value == dump_max_value(idx)
        value_fmt == dump_value_fmt(max_value)
        opened == <<>>
    IN  IF ~Fits("I", max_value)
        THEN [status |-> "struct.error", file |-> File(opened), fmt |-> value_fmt]
        ELSE LET r == WriteRecords(idx, value_fmt, opened \o PackNative(order, max_value))
             IN  [status |-> r.status, file |-> File(r.file), fmt |-> value_fmt]

\* Mutant of StructStoragePolicy_dump: the file is opened before max_value
\* is computed.
StructStoragePolicy_dump_open_first(order, idx, file) ==
    IF MaxRaises(idx)
    THEN [status |-> "ValueError", file |-> File(<<>>), fmt |-> NoFmt]
    ELSE WriteFile(order, idx)

\* dump(filepath, index) with `file` at filepath before the call:
\* [status, file, fmt] with the file at filepath after it
StructStoragePolicy_dump(order, idx, file) ==
    IF MaxRaises(idx)
    THEN [status |-> "ValueError", file |-> file, fmt |-> NoFmt]
    ELSE WriteFile(order, idx)

(***************************************************************************)
(* StructStoragePolicy.load                                                *)
(***************************************************************************)
\* Mutant of load_value_fmt: the bound is not strict.
load_value_fmt_le(max_value) == IF max_value <= WidthLimit THEN "H" ELSE "I"

\* value_fmt = "H" if max_value < 65535 else "I"
load_value_fmt(max_value) == IF max_value < WidthLimit THEN "H" ELSE "I"

\* value_size = 2 if max_value < 65535 else 4
load_value_size(max_value) == IF max_value < WidthLimit THEN 2 ELSE 4

\* fio.read(n) at offset pos: at most n bytes, fewer at the end of the file
Read(file, pos, n) ==
    LET left == Len(file) - pos
    IN  SubSeq(file, pos + 1, pos + (IF n < left THEN n ELSE left))

\* a call that raises returns nothing
Raised(name) == [status |-> name, value |-> <<>>]

\* Mutant of UnpackRaises: a short buffer is decoded as far as it goes.
UnpackLenient(size, buffer) == FALSE

\* struct.unpack(format, buffer) raises struct.error unless the buffer has
\* exactly calcsize(format) bytes
UnpackRaises(size, buffer) == Len(buffer) # size

\* Mutant of MoreRecords: while file_size >= 0.
MoreRecordsGe(file_size) == file_size >= 0

\* while file_size > 0
MoreRecords(file_size) == file_size > 0

\* Mutant of BudgetAfter: the budget is left as it was.
BudgetKept(file_size, consumed) == file_size

\* file_size -= ... : the bytes an iteration has asked for
BudgetAfter(file_size, consumed) == file_size - consumed

\* Mutant of StoreRecord: the values of a key met again are added to those it has.
StoreRecordMerged(idx, key, values) ==
    IF key \in Keys(idx) THEN DictSet(idx, key, DictGet(idx, key) \o values)
    ELSE DictSet(idx, key, values)

\* index[key] = values
StoreRecord(idx, key, values) == DictSet(idx, key, values)

\* one iteration of the loop: struct.unpack raises struct.error when the buffer read
\* is shorter than the format. Each fio.read is bound once, to the bytes it returned.
ReadRecord(file, pos, file_size, value_fmt, value_size, idx) ==
    LET raised(name) == [status |-> name, pos |-> pos, file_size |-> file_size, index |-> idx]
        Decoded(b_len, b_key, b_cnt, b_val) ==
            LET bytes_len == FromBigEndian(b_len)
                key == DecodeUtf8(b_key)
                values_len == FromBigEndian(b_cnt)
                values == UnpackAll(value_fmt, b_val)
            IN  IF UnpackRaises(2, b_len) THEN raised("struct.error")
                ELSE IF ~key.ok THEN raised("UnicodeDecodeError")
                ELSE IF UnpackRaises(SizeOf(value_fmt), b_cnt) THEN raised("struct.error")
                ELSE IF UnpackRaises(values_len * SizeOf(value_fmt), b_val)
                THEN raised("struct.error")
                ELSE [status |-> "ok",
                      pos |-> pos + Len(b_len) + Len(b_key) + Len(b_cnt) + Len(b_val),
                      file_size |->
                          BudgetAfter(file_size,
                                      2 + bytes_len + value_size + values_len * value_size),
                      index |-> StoreRecord(idx, key.value, values)]
        ReadValues(b_len, b_key, b_cnt) ==
            {Decoded(b_len, b_key, b_cnt, b_val) :
                b_val \in {Read(file, pos + Len(b_len) + Len(b_key) + Len(b_cnt),
                                FromBigEndian(b_cnt) * value_size)}}
        ReadCount(b_len, b_key) ==
            UNION {ReadValues(b_len, b_key, b_cnt) :
                      b_cnt \in {Read(file, pos + Len(b_len) + Len(b_key), value_size)}}
        ReadKey(b_len) ==
            UNION {ReadCount(b_len, b_key) :
                      b_key \in {Read(file, pos + Len(b_len), FromBigEndian(b_len))}}
    IN  CHOOSE record \in UNION {ReadKey(b_len) : b_len \in {Read(file, pos, 2)}} : TRUE

RECURSIVE ReadRecords(_, _, _, _, _, _)
\* the loop while file_size > 0
ReadRecords(file, pos, file_size, value_fmt, value_size, idx) ==
    IF ~MoreRecords(file_size) THEN [status |-> "ok", value |-> idx]
    ELSE
        LET record == ReadRecord(file, pos, file_size, value_fmt, value_size, idx)
        IN  IF record.status # "ok" THEN Raised(record.status)
            ELSE ReadRecords(file, record.pos, record.file_size, value_fmt, value_size,
                             record.index)

\* load(filepath) with `file` at filepath: [status, value]
StructStoragePolicy_load(order, path) ==
    IF ~path.exists THEN Raised("FileNotFoundError")
    ELSE
        LET file == path.data
            b_max == Read(file, 0, 4)
            max_value == UnpackNative(order, b_max)
        IN  IF UnpackRaises(4, b_max) THEN Raised("struct.error")
            ELSE ReadRecords(file, 4, Len(file) - 4,
                             load_value_fmt(max_value), load_value_size(max_value), <<>>)

(***************************************************************************)
(* Document texts: " ".join(tokens) and str.split()                        *)
(***************************************************************************)
IsSpace(c) == c \in {9, 10, 11, 12, 13, 28, 29, 30, 31, 32, 133, 160}

RECURSIVE Join(_)
\* " ".join(tokens)
Join(tokens) ==
    IF tokens = <<>> THEN <<>>
    ELSE IF Len(tokens) = 1 THEN Head(tokens)
    ELSE Head(tokens) \o <<Space>> \o Join(Tail(tokens))

RECURSIVE SplitFrom(_, _, _)
SplitFrom(text, cur, out) ==
    IF text = <<>> THEN (IF cur = <<>> THEN out ELSE Append(out, cur))
    ELSE IF IsSpace(Head(text))
    THEN SplitFrom(Tail(text), <<>>, IF cur = <<>> THEN out ELSE Append(out, cur))
    ELSE SplitFrom(Tail(text), Append(cur, Head(text)), out)

\* text.split(): the maximal runs of non-whitespace characters
Split(text) == SplitFrom(text, <<>>, <<>>)

(***************************************************************************)
(* build_inverted_index                                                    *)
(***************************************************************************)
\* Mutant of AddPosting: the word's set is replaced instead of extended.
AddPostingOverwrite(d, word, doc_id) == DictSet(d, word, {doc_id})

\* index[word].add(doc_id) on a defaultdict(set)
AddPosting(d, word, doc_id) ==
    IF word \in Keys(d) THEN DictSet(d, word, DictGet(d, word) \cup {doc_id})
    ELSE DictSet(d, word, {doc_id})

RECURSIVE AddWords(_, _, _)
\* for word in doc_text.split(): index[word].add(doc_id)
AddWords(d, tokens, doc_id) ==
    IF tokens = <<>> THEN d
    ELSE AddWords(AddPosting(d, Head(tokens), doc_id), Tail(tokens), doc_id)

RECURSIVE BuildSetsKeepEmpty(_, _)
\* Mutant of BuildSets: a document without tokens leaves an entry without postings.
BuildSetsKeepEmpty(d, docs) ==
    IF docs = <<>> THEN d
    ELSE BuildSetsKeepEmpty(IF Split(Head(docs).value) = <<>> THEN DictSet(d, <<>>, {})
                            ELSE AddWords(d, Split(Head(docs).value), Head(docs).key),
                            Tail(docs))

RECURSIVE BuildSets(_, _)
\* for doc_id, doc_text in documents.items(): ...
BuildSets(d, docs) ==
    IF docs = <<>> THEN d
    ELSE BuildSets(AddWords(d, Split(Head(docs).value), Head(docs).key), Tail(docs))

RECURSIVE ListValues(_)
\* {k: list(v) for k, v in index.items()}: the dicts it may produce
ListValues(d) ==
    IF d = <<>> THEN {<<>>}
    ELSE {<<[key |-> Head(d).key, value |-> l]>> \o rest :
            l \in ListOfSet(Head(d).value), rest \in ListValues(Tail(d))}

(***************************************************************************)
(* InvertedIndex.query                                                     *)
(***************************************************************************)
\* tmp is None (<<>>) or a set (<<s>>)
Unset == <<>>

\* Mutant of Accumulate: tmp is assigned at every word instead of intersected.
AccumulateAssign(tmp, postings) == <<Range(postings)>>

\* Mutant of Accumulate: the postings of the first word are kept as they are.
AccumulateFirst(tmp, postings) ==
    IF tmp = Unset THEN <<Range(postings)>> ELSE tmp

\* tmp = set(postings) if tmp is None, else tmp.intersection_update(set(postings))
Accumulate(tmp, postings) ==
    IF tmp = Unset THEN <<Range(postings)>> ELSE <<tmp[1] \cap Range(postings)>>

\* Mutant of MissingWord: the loop is left and what was accumulated is returned.
MissingWordBreak(tmp) == [status |-> "ok", value |-> IF tmp = Unset THEN {} ELSE tmp[1]]

\* the word is not in the index: return list()
MissingWord(tmp) == [status |-> "ok", value |-> {}]

\* return list(tmp); list(None) raises TypeError
AllWordsSeen(tmp) ==
    IF tmp = Unset THEN [status |-> "TypeError", value |-> {}]
    ELSE [status |-> "ok", value |-> tmp[1]]

RECURSIVE QueryLoop(_, _, _)
\* [status, value]: value is the set that list() is applied to
QueryLoop(idx, ws, tmp) ==
    IF ws = <<>> THEN AllWordsSeen(tmp)
    ELSE IF Head(ws) \in Keys(idx)
    THEN QueryLoop(idx, Tail(ws), Accumulate(tmp, DictGet(idx, Head(ws))))
    ELSE MissingWord(tmp)

InvertedIndex_query(idx, ws) == QueryLoop(idx, ws, Unset)

(***************************************************************************)
(* Inputs.                                                                 *)
(***************************************************************************)
SeqsUpTo(S, n) == UNION {[1..k -> S] : k \in 0..n}

DistinctKeys(d) == \A i, j \in 1..Len(d) : d[i].key = d[j].key => i = j

\* the texts load_documents produces: tokens joined by single spaces
Texts == {Join(t) : t \in SeqsUpTo(Words, MaxTokens)}

TotalTokens(d) == SumSeq([i \in 1..Len(d) |-> Len(Split(d[i].value))])

\* the id -> text mappings of at most MaxDocs documents
Corpora ==
    UNION {{d \in [1..k -> [key : DocIds, value : Texts]] :
                DistinctKeys(d) /\ TotalTokens(d) <= MaxTokens} : k \in 0..MaxDocs}

TotalPostings(d) == SumSeq([i \in 1..Len(d) |-> Len(d[i].value)])

\* the term -> postings mappings a caller may hand to InvertedIndex(index)
Indexes ==
    UNION {{d \in [1..k -> [key : Terms, value : SeqsUpTo(CodecIds, MaxPostings)]] :
                DistinctKeys(d) /\ TotalPostings(d) <= MaxPostings} : k \in 0..MaxTerms}

Queries == SeqsUpTo(Words, MaxQuery)

NotRun == [status |-> "none", value |-> <<>>]

NotDumped == [status |-> "none", file |-> NoFile, fmt |-> NoFmt]

\* the parts of the model a run does not use
NoLoader == corpus = NoFile /\ read = NotRun

NoQueryFile == queryfile = <<>> /\ output = <<>>

NoThreads == threads = <<>>

\* requests.get was not called
NotCalled == [status |-> "none", page |-> <<>>]

\* no request has called cbr.ru
NoCbr == [periods |-> <<>>, interest |-> NotCalled, daily |-> NotCalled, raised |-> "none"]

NoAssets == bank = <<>> /\ history = <<>> /\ cbr = NoCbr /\ inflight = <<>>

\* proceed_query was not called
NoReply == [query |-> <<>>, start |-> 0, end |-> 0, top |-> <<>>]

NoAnalytics == posts = <<>> /\ stopwords = {} /\ parsed_data = <<>> /\ reply = NoReply

\* load has not been called
NotReading ==
    [status |-> "none", open |-> FALSE, pos |-> 0, file_size |-> 0, value_fmt |-> NoFmt,
     value_size |-> 0, index |-> <<>>, error |-> "none"]

NoReader == reader = NotReading

(***************************************************************************)
(* The build-and-query run: documents -> build_inverted_index ->           *)
(* query | dump -> load.                                                   *)
(***************************************************************************)
Init ==
    /\ pc = "start"
    /\ byteorder \in ByteOrders
    /\ documents \in Corpora
    /\ index = <<>>
    /\ disk \in {NoFile, OldFile}
    /\ dumped = NotDumped
    /\ cut = -1
    /\ loaded = NotRun
    /\ words = <<>>
    /\ answer = NotRun
    /\ NoLoader /\ NoQueryFile /\ NoThreads /\ NoAssets /\ NoAnalytics /\ NoReader

build_inverted_index ==
    /\ pc = "start"
    /\ index' \in ListValues(BuildSets(<<>>, documents))
    /\ pc' = "built"
    /\ UNCHANGED <<byteorder, documents, disk, dumped, cut, loaded, words, answer>>
    /\ UNCHANGED otherVars

\* inverted_index.query(words), the result passed through list()
query ==
    /\ pc = "built"
    /\ \E ws \in Queries :
         LET r == InvertedIndex_query(index, ws)
         IN  /\ words' = ws
             /\ \E l \in ListOfSet(r.value) : answer' = [status |-> r.status, value |-> l]
    /\ pc' = "queried"
    /\ UNCHANGED <<byteorder, documents, index, disk, dumped, cut, loaded>>
    /\ UNCHANGED otherVars

\* inverted_index.dump(StructStoragePolicy(), path)
dump ==
    /\ pc = "built"
    /\ dumped' = StructStoragePolicy_dump(byteorder, index, disk)
    /\ disk' = dumped'.file
    /\ pc' = "dumped"
    /\ UNCHANGED <<byteorder, documents, index, cut, loaded, words, answer>>
    /\ UNCHANGED otherVars

\* the index file loses its tail: a proper prefix of what dump wrote is left
truncate ==
    /\ pc = "dumped"
    /\ dumped.status = "ok"
    /\ \E n \in 0..(Len(disk.data) - 1) :
         /\ disk' = File(Take(disk.data, n))
         /\ cut' = n
    /\ pc' = "truncated"
    /\ UNCHANGED <<byteorder, documents, index, dumped, loaded, words, answer>>
    /\ UNCHANGED otherVars

\* InvertedIndex.load(StructStoragePolicy(), path)
\* a run of the query command after the build command ended, however it ended
load ==
    /\ pc \in {"dumped", "truncated", "raised"}
    /\ loaded' = StructStoragePolicy_load(byteorder, disk)
    /\ pc' = "loaded"
    /\ UNCHANGED <<byteorder, documents, index, disk, dumped, cut, words, answer>>
    /\ UNCHANGED otherVars

RECURSIVE DigitsOf(_)
\* the decimal digits of a natural number
DigitsOf(n) ==
    IF n < 10 THEN <<Zero + n>> ELSE Append(DigitsOf(n \div 10), Zero + (n % 10))

\* str(var)
Str(n) == IF n < 0 THEN <<Minus>> \o DigitsOf(0 - n) ELSE DigitsOf(n)

Comma == 44

RECURSIVE JoinComma(_)
\* ",".join(strings)
JoinComma(strings) ==
    IF strings = <<>> THEN <<>>
    ELSE IF Len(strings) = 1 THEN Head(strings)
    ELSE Head(strings) \o <<Comma>> \o JoinComma(Tail(strings))

\* ",".join([str(var) for var in ids])
FormatLine(ids) == JoinComma([i \in 1..Len(ids) |-> Str(ids[i])])

\* callback_query with arguments.query, which is taken only when the list
\* is not empty: one query on the loaded index, its result printed
callback_query ==
    /\ pc = "loaded"
    /\ loaded.status = "ok"
    /\ \E ws \in Queries \ {<<>>} :
         LET r == InvertedIndex_query(loaded.value, ws)
         IN  /\ words' = ws
             /\ \E l \in ListOfSet(r.value) :
                  /\ answer' = [status |-> r.status, value |-> l]
                  /\ output' = <<FormatLine(l)>>
    /\ pc' = "answered"
    /\ UNCHANGED <<byteorder, documents, index, disk, dumped, cut, loaded>>
    /\ UNCHANGED <<loaderVars, queryfile, threads, assetVars, analyticsVars, readerVars>>

Next == build_inverted_index \/ query \/ dump \/ load \/ callback_query

Spec == Init /\ [][Next]_vars

(***************************************************************************)
(* The codec run: an index given to InvertedIndex(index) -> dump ->        *)
(* (truncate) -> load.                                                     *)
(***************************************************************************)
InitCodec ==
    /\ pc = "built"
    /\ byteorder \in ByteOrders
    /\ documents = <<>>
    /\ index \in Indexes
    /\ disk \in {NoFile, OldFile}
    /\ dumped = NotDumped
    /\ cut = -1
    /\ loaded = NotRun
    /\ words = <<>>
    /\ answer = NotRun
    /\ NoLoader /\ NoQueryFile /\ NoThreads /\ NoAssets /\ NoAnalytics /\ NoReader

NextCodec == dump \/ truncate \/ load

SpecCodec == InitCodec /\ [][NextCodec]_vars

(***************************************************************************)
(* Properties of InvertedIndex.query on a built index (Spec).              *)
(***************************************************************************)
\* the tokens of document d, none when the corpus has no document d
TokensOf(d) == IF d \in Keys(documents) THEN Range(Split(DictGet(documents, d))) ELSE {}

ContainsAll(d, ws) == d \in Keys(documents) /\ \A i \in 1..Len(ws) : ws[i] \in TokensOf(d)

\* C2, as stated: for every term list T and every document d, d is in
\* query(T) iff the tokens of d contain every term of T.
C2_IntersectionEveryTermList ==
    pc = "queried" =>
        \A d \in Keys(documents) : d \in Range(answer.value) <=> ContainsAll(d, words)

\* C2, amended: for every non-empty term list T, query(T) returns, and d is
\* in the result iff d is a document whose tokens contain every term of T.
C2_IntersectionNonEmpty ==
    (pc = "queried" /\ words # <<>>) =>
        /\ answer.status = "ok"
        /\ \A d \in DocIds : d \in Range(answer.value) <=> ContainsAll(d, words)

\* two different terms that share one of two documents
C2_Witness ==
    /\ pc = "queried"
    /\ Len(words) = 2 /\ words[1] # words[2]
    /\ Len(documents) = 2
    /\ Len(answer.value) = 1
    /\ Len(DictGet(index, words[1])) = 2

\* C3: query(T) is empty whenever some term of T is not a key of the index,
\* wherever it stands in T.
C3_ShortCircuit ==
    (pc = "queried" /\ \E i \in 1..Len(words) : words[i] \notin Keys(index)) =>
        answer.status = "ok" /\ answer.value = <<>>

\* the missing term comes after a term that has postings
C3_Witness ==
    /\ pc = "queried"
    /\ Len(words) = 2
    /\ words[1] \in Keys(index)
    /\ words[2] \notin Keys(index)
    /\ answer.status = "ok"

\* C4: query of the empty term list returns the empty result.
C4_EmptyQueryEmptyResult ==
    (pc = "queried" /\ words = <<>>) => (answer.status = "ok" /\ answer.value = <<>>)

(***************************************************************************)
(* Properties of the binary codec (SpecCodec, C10 under Spec).             *)
(***************************************************************************)
\* the index of the claims: at least one term, only non-empty posting lists
\* of non-negative ids
WellFormed(idx) ==
    /\ idx # <<>>
    /\ \A i \in 1..Len(idx) :
         idx[i].value # <<>> /\ \A j \in 1..Len(idx[i].value) : idx[i].value[j] >= 0

MaxId(idx) == MaxOf(UNION {Range(idx[i].value) : i \in 1..Len(idx)})

\* the value width the spec gives an index
SpecWidth(idx) == IF MaxId(idx) <= 65534 THEN 2 ELSE 4

KeyLen(idx, k) == Len(EncodeUtf8(idx[k].key))

RecLen(idx, k, w) == 2 + KeyLen(idx, k) + w * (1 + Len(idx[k].value))

\* offset of record k in the file (of the end of the file for k = Len + 1)
Off(idx, k, w) == 4 + SumSeq([j \in 1..(k - 1) |-> RecLen(idx, j, w)])

\* byte i of 1..w of the big-endian form of x
ByteOf(x, w, i) == (x \div (256 ^ (w - i))) % 256

\* the w bytes at offset off are x, big-endian
FieldIs(data, off, w, x) ==
    /\ Len(data) >= off + w
    /\ \A i \in 1..w : data[off + i] = ByteOf(x, w, i)

\* C1: load of the file dump wrote returns the same terms with the same
\* postings, in the same list order.
C1_RoundTrip ==
    (pc = "loaded" /\ cut = -1 /\ WellFormed(index) /\ dumped.status = "ok") =>
        /\ loaded.status = "ok"
        /\ Keys(loaded.value) = Keys(index)
        /\ Len(loaded.value) = Len(index)
        /\ \A k \in Keys(index) : DictGet(loaded.value, k) = DictGet(index, k)

\* two terms, one of two UTF-8 bytes, in the 4-byte width
C1_Witness ==
    /\ pc = "loaded" /\ cut = -1 /\ WellFormed(index) /\ dumped.status = "ok"
    /\ Len(index) = 2
    /\ MaxId(index) = 65535
    /\ \E k \in 1..2 : KeyLen(index, k) > Len(index[k].key)
    /\ loaded.status = "ok"

\* C5: counts and ids take 2 bytes when the largest id is at most 65534 and
\* 4 bytes when it is at least 65535, and load derives that width from the
\* header.
C5_WidthBoundary ==
    (pc = "dumped" /\ dumped.status = "ok") =>
        LET w == SpecWidth(index)
            header == UnpackNative(byteorder, Take(disk.data, 4))
        IN  /\ Len(disk.data) = Off(index, Len(index) + 1, w)
            /\ \A k \in 1..Len(index) :
                 LET at == Off(index, k, w) + 2 + KeyLen(index, k)
                 IN  /\ FieldIs(disk.data, at, w, Len(index[k].value))
                     /\ \A m \in 1..Len(index[k].value) :
                          FieldIs(disk.data, at + w * m, w, index[k].value[m])
            /\ load_value_size(header) = w
            /\ SizeOf(load_value_fmt(header)) = w

\* the largest id is exactly 65535 and sits beside a smaller one
C5_Witness ==
    /\ pc = "dumped" /\ dumped.status = "ok"
    /\ MaxId(index) = 65535
    /\ \E i \in 1..Len(index) : 65534 \in Range(index[i].value)
    /\ Len(disk.data) = Off(index, Len(index) + 1, 4)

\* C6: the file is the 4-byte header holding max_id, then one record per
\* term in iteration order: 2-byte term length, the UTF-8 term bytes, the
\* count and the ids in list order in the value width.
C6_FileLayout ==
    (pc = "dumped" /\ dumped.status = "ok") =>
        LET w == SpecWidth(index)
            data == disk.data
        IN  /\ Len(data) = 4 + SumSeq([k \in 1..Len(index) |->
                                2 + KeyLen(index, k) + w * (1 + Len(index[k].value))])
            /\ \A i \in 1..4 :
                 data[i] = ByteOf(MaxId(index), 4, IF byteorder = "big" THEN i ELSE 5 - i)
            /\ \A k \in 1..Len(index) :
                 LET at == Off(index, k, w)
                     key_bytes == EncodeUtf8(index[k].key)
                     n == Len(key_bytes)
                 IN  /\ FieldIs(data, at, 2, n)
                     /\ SubSeq(data, at + 3, at + 2 + n) = key_bytes
                     /\ FieldIs(data, at + 2 + n, w, Len(index[k].value))
                     /\ \A m \in 1..Len(index[k].value) :
                          FieldIs(data, at + 2 + n + w * m, w, index[k].value[m])

\* two records, the second after a term of two UTF-8 bytes
C6_Witness ==
    /\ pc = "dumped" /\ dumped.status = "ok"
    /\ Len(index) = 2
    /\ KeyLen(index, 1) = 2 /\ Len(index[1].key) = 1
    /\ index[2].value = <<65534>>
    /\ Len(disk.data) = 4 + (2 + 2 + 2 * 2) + (2 + KeyLen(index, 2) + 2 * 2)

\* the index has no terms, or a term with an empty posting list
NoPostings(idx) == Len(idx) = 0 \/ \E i \in 1..Len(idx) : Len(idx[i].value) = 0

\* C7: dump of an index with no terms, or with an empty posting list, fails
\* before the file is opened: the path is left as it was.
C7_EmptyIndexDumpFails ==
    [][(pc = "built" /\ pc' = "dumped" /\ NoPostings(index)) =>
          (dumped'.status = "ValueError" /\ disk' = disk)]_vars

\* a term with an empty posting list beside a good one, and a file at the path
C7_Witness ==
    /\ pc = "dumped"
    /\ Len(index) = 2
    /\ index[1].value # <<>> /\ index[2].value = <<>>
    /\ dumped.status = "ValueError"
    /\ disk = OldFile

\* the cut falls where record k declares more term bytes, or more postings,
\* than the file still has
PastEnd(idx, k, w, n) ==
    \/ /\ n >= Off(idx, k, w) + 2
       /\ n < Off(idx, k, w) + 2 + KeyLen(idx, k)
    \/ /\ n >= Off(idx, k, w) + 2 + KeyLen(idx, k) + w
       /\ n < Off(idx, k + 1, w)

\* C8: load of a stream in which a declared term length or postings count
\* reaches past the end raises and returns no index.
C8_DeclaredLengthPastEnd ==
    (/\ pc = "loaded" /\ cut >= 0
     /\ \E k \in 1..Len(index) : PastEnd(index, k, SpecWidth(index), cut)) =>
        /\ loaded.status \in {"struct.error", "UnicodeDecodeError"}
        /\ loaded.value = <<>>

\* the second record's postings are cut short after a whole first record
C8_Witness ==
    /\ pc = "loaded" /\ cut >= 0
    /\ Len(index) = 2
    /\ cut = Off(index, 3, SpecWidth(index)) - 1
    /\ loaded.status = "struct.error"

\* the cuts that fall between two records or right after the header
Boundaries(idx, w) == {Off(idx, k, w) : k \in 1..Len(idx)}

\* C9, as stated: load of every proper prefix of a dumped file raises.
C9_EveryPrefixRaises ==
    (pc = "loaded" /\ cut >= 0) => loaded.status # "ok"

\* C9, amended: load of a proper prefix raises unless the prefix ends right
\* after the header or at the end of a record; then it returns the records
\* the prefix holds.
C9_PrefixRaisesUnlessBoundary ==
    (pc = "loaded" /\ cut >= 0) =>
        LET w == SpecWidth(index)
        IN  /\ loaded.status # "ok" <=> cut \notin Boundaries(index, w)
            /\ loaded.status # "ok" => loaded.value = <<>>
            /\ \A k \in 1..Len(index) :
                 cut = Off(index, k, w) => loaded.value = Take(index, k - 1)

\* a prefix that ends inside the second record's term
C9_Witness ==
    /\ pc = "loaded" /\ cut >= 0
    /\ Len(index) = 2
    /\ KeyLen(index, 2) = 2
    /\ cut = Off(index, 2, SpecWidth(index)) + 3
    /\ loaded.status # "ok"

\* C10: a dump that fails leaves the output path as it was.
C10_FailedBuildLeavesNoFile ==
    [][(pc = "built" /\ pc' = "dumped" /\ dumped'.status # "ok") => disk' = disk]_vars

(***************************************************************************)
(* load_documents: a corpus file is a text, the sequence of its code       *)
(* points, and its rows are the lines of the text.                         *)
(***************************************************************************)
MaxLines == 2       \* rows of a query file
MaxChars == 7       \* characters of a corpus file

Newline == 10

\* "3", "4", "a", " ", a tab and the line end
Alphabet == {51, 52, 97, Space, 9, Newline}

RECURSIVE LinesFrom(_, _, _)
LinesFrom(text, cur, out) ==
    IF text = <<>> THEN (IF cur = <<>> THEN out ELSE Append(out, cur))
    ELSE IF Head(text) = Newline
    THEN LinesFrom(Tail(text), <<>>, Append(out, Append(cur, Newline)))
    ELSE LinesFrom(Tail(text), Append(cur, Head(text)), out)

\* for row in fin: the lines of the text, each with its line end
Lines(text) == LinesFrom(text, <<>>, <<>>)

RECURSIVE LStrip(_)
LStrip(text) ==
    IF text # <<>> /\ IsSpace(Head(text)) THEN LStrip(Tail(text)) ELSE text

RECURSIVE RStrip(_)
RStrip(text) ==
    IF text # <<>> /\ IsSpace(text[Len(text)]) THEN RStrip(Take(text, Len(text) - 1)) ELSE text

\* row.strip()
Strip(text) == RStrip(LStrip(text))

IsDigit(c) == c \in Zero..(Zero + 9)

\* the digits of a token after its sign
Digits(token) ==
    IF token # <<>> /\ Head(token) \in {Minus, 43} THEN Tail(token) ELSE token

\* int(token) raises ValueError unless the token is an optionally signed run
\* of decimal digits (signs, underscores and non-ASCII digits are outside
\* Alphabet)
IntRaises(token) ==
    Digits(token) = <<>> \/ \E i \in 1..Len(Digits(token)) : ~IsDigit(Digits(token)[i])

RECURSIVE Magnitude(_, _)
Magnitude(digits, acc) ==
    IF digits = <<>> THEN acc
    ELSE Magnitude(Tail(digits), 10 * acc + (Head(digits) - Zero))

\* int(token)
IntOf(token) ==
    IF token # <<>> /\ Head(token) = Minus THEN 0 - Magnitude(Digits(token), 0)
    ELSE Magnitude(Digits(token), 0)

\* Mutant of RowText: the id stays in the text.
RowTextWithId(row) == Join(row)

\* " ".join(row[1:])
RowText(row) == Join(Tail(row))

\* Mutant of StoreRow: a repeated id keeps its first text.
StoreRowFirst(docs, row) ==
    IF IntOf(row[1]) \in Keys(docs) THEN docs ELSE DictSet(docs, IntOf(row[1]), RowText(row))

\* documents[int(row[0])] = " ".join(row[1:])
StoreRow(docs, row) == DictSet(docs, IntOf(row[1]), RowText(row))

RECURSIVE ReadRows(_, _)
\* for row in fin: row = row.strip().split(); documents[int(row[0])] = ...
ReadRows(rows, docs) ==
    IF rows = <<>> THEN [status |-> "ok", value |-> docs]
    ELSE LET row == Split(Strip(Head(rows)))
         IN  IF row = <<>> THEN Raised("IndexError")
             ELSE IF IntRaises(row[1]) THEN Raised("ValueError")
             ELSE ReadRows(Tail(rows), StoreRow(docs, row))

\* Mutant of OpenForReading: a missing file reads as an empty one.
OpenForReadingLenient(file) == "ok"

\* open(filepath, 'r')
OpenForReading(file) == IF file.exists THEN "ok" ELSE "FileNotFoundError"

\* load_documents(filepath): [status, value]
load_documents_of(file) ==
    IF OpenForReading(file) # "ok" THEN Raised(OpenForReading(file))
    ELSE ReadRows(Lines(file.data), <<>>)

(***************************************************************************)
(* callback_build from the corpus file on, followed by a load of what it   *)
(* stored.                                                                 *)
(***************************************************************************)
InitLoader ==
    /\ pc = "begin"
    /\ byteorder = "little"
    /\ \/ corpus = NoFile
       \/ \E n \in 0..MaxChars : \E text \in [1..n -> Alphabet] : corpus = File(text)
    /\ read = NotRun
    /\ documents = <<>>
    /\ index = <<>>
    /\ disk = NoFile
    /\ dumped = NotDumped
    /\ cut = -1
    /\ loaded = NotRun
    /\ words = <<>>
    /\ answer = NotRun
    /\ NoQueryFile /\ NoThreads /\ NoAssets /\ NoAnalytics /\ NoReader

\* documents = load_documents(arguments.load_path)
load_documents ==
    /\ pc = "begin"
    /\ read' = load_documents_of(corpus)
    /\ documents' = read'.value
    /\ pc' = IF read'.status = "ok" THEN "start" ELSE "raised"
    /\ UNCHANGED <<byteorder, index, disk, dumped, cut, loaded, words, answer>>
    /\ UNCHANGED <<corpus, queryFileVars, threads, assetVars, analyticsVars, readerVars>>

NextLoader == load_documents \/ build_inverted_index \/ dump \/ load

SpecLoader == InitLoader /\ [][NextLoader]_vars

(***************************************************************************)
(* Claims about load_documents.                                            *)
(***************************************************************************)
\* the rows of the corpus file
Rows == Lines(corpus.data)

\* the whitespace-delimited tokens of every row of the corpus
RowTokens == LET rows == Rows IN [i \in 1..Len(rows) |-> Split(rows[i])]

\* the row of tokens t starts with a token that is a valid integer
HasId(t) == t # <<>> /\ ~IntRaises(t[1])

RowId(t) == IntOf(t[1])

\* load_documents has just returned or raised
HasRead == pc \in {"start", "raised"} /\ read.status # "none"

\* a text of tokens separated by single spaces, with nothing around them
SingleSpaced(text) ==
    /\ \A i \in 1..Len(text) : IsSpace(text[i]) => text[i] = Space
    /\ \A i \in 1..Len(text) : IsSpace(text[i]) => i \notin {1, Len(text)}
    /\ \A i \in 1..(Len(text) - 1) : ~(IsSpace(text[i]) /\ IsSpace(text[i + 1]))

\* the text that a row of tokens t gives its document
TextOfRow(t) == Join(Tail(t))

\* C11: when every row of the corpus starts with an id, load_documents
\* returns a mapping with one entry for each id, whose text is the text of
\* the last row with that id; repeated ids are not an error.
C11_LastWriteWins ==
    (HasRead /\ corpus.exists) =>
        LET toks == RowTokens
            n == Len(toks)
        IN  (\A i \in 1..n : HasId(toks[i])) =>
                /\ read.status = "ok"
                /\ DistinctKeys(read.value)
                /\ Keys(read.value) = {RowId(toks[i]) : i \in 1..n}
                /\ \A i \in 1..n :
                     (\A j \in (i + 1)..n : RowId(toks[j]) # RowId(toks[i])) =>
                         DictGet(read.value, RowId(toks[i])) = TextOfRow(toks[i])

\* two rows with one id and different texts
C11_Witness ==
    /\ HasRead /\ corpus.exists /\ Len(Rows) = 2
    /\ LET toks == RowTokens
       IN  /\ HasId(toks[1]) /\ HasId(toks[2]) /\ RowId(toks[1]) = RowId(toks[2])
           /\ TextOfRow(toks[1]) # <<>> /\ TextOfRow(toks[2]) # <<>>
           /\ TextOfRow(toks[1]) # TextOfRow(toks[2])
           /\ read.value = <<[key |-> RowId(toks[2]), value |-> TextOfRow(toks[2])]>>

\* the first token of the row is no integer, or no token follows it
Malformed(t) == t # <<>> /\ (IntRaises(t[1]) \/ Len(t) = 1)

\* C12: a corpus with a malformed row makes load_documents fail and return
\* no mapping.
C12_MalformedRowAborts ==
    (HasRead /\ corpus.exists /\ \E i \in 1..Len(RowTokens) : Malformed(RowTokens[i])) =>
        read.status # "ok" /\ read.value = <<>>

\* a row of at least two tokens whose first is an integer
WellFormedRow(t) == HasId(t) /\ Len(t) >= 2

DistinctIds(toks) == \A i, j \in 1..Len(toks) : RowId(toks[i]) = RowId(toks[j]) => i = j

\* C13: for a corpus of well-formed rows with pairwise distinct ids,
\* load_documents returns one entry per row, keyed by the integer value of
\* the row's first token, whose text is the remaining tokens joined by
\* single spaces.
C13_OneEntryPerRow ==
    (HasRead /\ corpus.exists) =>
        LET toks == RowTokens
            n == Len(toks)
        IN  ((\A i \in 1..n : WellFormedRow(toks[i])) /\ DistinctIds(toks)) =>
                /\ read.status = "ok"
                /\ Len(read.value) = n
                /\ \A i \in 1..n :
                     /\ RowId(toks[i]) \in Keys(read.value)
                     /\ LET text == DictGet(read.value, RowId(toks[i]))
                        IN  /\ text = TextOfRow(toks[i])
                            /\ Split(text) = Tail(toks[i])
                            /\ SingleSpaced(text)

\* two well-formed rows, one of them with a tab between id and text
C13_Witness ==
    /\ HasRead /\ corpus.exists /\ Len(Rows) = 2
    /\ LET toks == RowTokens
       IN  WellFormedRow(toks[1]) /\ WellFormedRow(toks[2]) /\ DistinctIds(toks)
    /\ \E i \in 1..2 : 9 \in Range(Rows[i])
    /\ Len(read.value) = 2

\* C15: load_documents on a corpus path that holds no file, and
\* InvertedIndex.load on an index path that holds no file, raise
\* FileNotFoundError, return nothing and create no file.
C15_MissingFileRaises ==
    [][/\ (pc = "begin" /\ pc' # "begin" /\ ~corpus.exists) =>
            /\ read' = Raised("FileNotFoundError")
            /\ pc' = "raised"
            /\ documents' = <<>>
            /\ corpus' = NoFile /\ disk' = disk
       /\ (pc # "loaded" /\ pc' = "loaded" /\ ~disk.exists) =>
            /\ loaded' = Raised("FileNotFoundError")
            /\ disk' = NoFile /\ corpus' = corpus]_vars

\* both paths held no file, and both loads have raised
C15_Witness ==
    /\ pc = "loaded"
    /\ ~corpus.exists /\ read.status = "FileNotFoundError"
    /\ ~disk.exists /\ loaded.status = "FileNotFoundError"


(***************************************************************************)
(* Claims about build_inverted_index.                                      *)
(***************************************************************************)
\* the documents whose text has the token t
DocsWith(t) == {d \in Keys(documents) : t \in TokensOf(d)}

\* C14: the keys of a built index are exactly the tokens of the documents,
\* and the posting list of a term holds, once each, the ids of exactly the
\* documents whose text has the term.
C14_BuiltIndex ==
    (pc = "built") =>
        /\ DistinctKeys(index)
        /\ Keys(index) = UNION {TokensOf(d) : d \in Keys(documents)}
        /\ \A t \in Keys(index) :
             /\ Range(DictGet(index, t)) = DocsWith(t)
             /\ Len(DictGet(index, t)) = Cardinality(DocsWith(t))

\* two documents share a term that one of them repeats
C14_Witness ==
    /\ pc = "built"
    /\ \E t \in Keys(index) :
         /\ Len(DictGet(index, t)) = 2
         /\ \E d \in Keys(documents) :
              Cardinality({i \in 1..Len(Split(DictGet(documents, d))) :
                              Split(DictGet(documents, d))[i] = t}) = 2


(***************************************************************************)
(* Claims about queries on a loaded index.                                 *)
(***************************************************************************)
\* C16: when the built index was dumped and loaded again, a query with at
\* least one term has on the loaded index the set of ids it has on the built
\* index.
C16_PersistenceKeepsAnswers ==
    (pc = "answered" /\ dumped.status = "ok" /\ words # <<>>) =>
        /\ answer.status = "ok"
        /\ Range(answer.value) = InvertedIndex_query(index, words).value

\* a query of two terms that a document of the corpus has
C16_Witness ==
    /\ pc = "answered" /\ dumped.status = "ok"
    /\ Len(words) = 2 /\ words[1] # words[2]
    /\ answer.value # <<>>
    /\ output = <<FormatLine(answer.value)>>


(***************************************************************************)
(* callback_query with arguments.query_file: the index is loaded, then one *)
(* line is printed for each row of the file.                               *)
(***************************************************************************)
\* the rows of a query file: terms separated by single spaces
QueryRows == {Join(ws) : ws \in Queries}

\* the query files of at most MaxLines rows and MaxTokens terms
QueryFiles ==
    {f \in SeqsUpTo(QueryRows, MaxLines) :
        SumSeq([i \in 1..Len(f) |-> Len(Split(f[i]))]) <= MaxTokens}

\* the index was stored by dump and has just been loaded
InitQueryFile ==
    /\ pc = "loaded"
    /\ byteorder = "little"
    /\ documents = <<>>
    /\ index \in Indexes
    /\ dumped = StructStoragePolicy_dump(byteorder, index, NoFile)
    /\ dumped.status = "ok"
    /\ disk = dumped.file
    /\ cut = -1
    /\ loaded = StructStoragePolicy_load(byteorder, disk)
    /\ words = <<>>
    /\ answer = NotRun
    /\ queryfile \in QueryFiles
    /\ output = <<>>
    /\ NoLoader /\ NoThreads /\ NoAssets /\ NoAnalytics /\ NoReader

\* one turn of the loop over arguments.query_file: the next row is split,
\* queried and its result printed; an exception of query ends the command
callback_query_row ==
    /\ pc = "loaded"
    /\ loaded.status = "ok"
    /\ Len(output) < Len(queryfile)
    /\ LET ws == Split(Strip(queryfile[Len(output) + 1]))
           r == InvertedIndex_query(loaded.value, ws)
       IN  /\ words' = ws
           /\ \E l \in ListOfSet(r.value) :
                /\ answer' = [status |-> r.status, value |-> l]
                /\ IF r.status = "ok"
                   THEN output' = Append(output, FormatLine(l)) /\ pc' = pc
                   ELSE output' = output /\ pc' = "raised"
    /\ UNCHANGED <<byteorder, documents, index, disk, dumped, cut, loaded>>
    /\ UNCHANGED <<loaderVars, queryfile, threads, assetVars, analyticsVars, readerVars>>

\* the rows are used up: callback_query returns
callback_query_return ==
    /\ pc = "loaded"
    /\ loaded.status = "ok"
    /\ Len(output) = Len(queryfile)
    /\ pc' = "returned"
    /\ UNCHANGED <<byteorder, documents, index, disk, dumped, cut, loaded, words, answer>>
    /\ UNCHANGED otherVars

NextQueryFile == callback_query_row \/ callback_query_return

SpecQueryFile == InitQueryFile /\ [][NextQueryFile]_vars

\* the terms of row i of the query file
RowTerms(i) == Split(queryfile[i])

\* the ids the claim gives row i: those of query(terms), none for no terms
RowResult(i) ==
    IF RowTerms(i) = <<>> THEN {} ELSE InvertedIndex_query(loaded.value, RowTerms(i)).value

\* C17: callback_query ends by returning, having printed one line for each
\* row of the query file: the comma-joined ids of the query of the row's
\* terms, an empty line where the result is empty or the row has no terms.
C17_OneLinePerRow ==
    (pc \in {"returned", "raised"}) =>
        /\ pc = "returned"
        /\ Len(output) = Len(queryfile)
        /\ \A i \in 1..Len(queryfile) :
             /\ \E l \in ListOfSet(RowResult(i)) : output[i] = FormatLine(l)
             /\ RowResult(i) = {} => output[i] = <<>>


(***************************************************************************)
(* InvertedIndex.query called by several threads on one index: each call   *)
(* goes through its loop one word at a time, in any interleaving with the  *)
(* others. tmp and the loop position are local to a call; self._index is   *)
(* shared.                                                                 *)
(***************************************************************************)
Threads == {1, 2}

\* a call that has not started: no word seen, tmp = None, nothing returned
Call(ws) == [words |-> ws, seen |-> 0, tmp |-> Unset, result |-> [status |-> "none", value |-> {}]]

\* an index as build_inverted_index makes it: every term has a posting
BuiltIndexes == {idx \in Indexes : \A i \in 1..Len(idx) : idx[i].value # <<>>}

InitThreads ==
    /\ pc = "built"
    /\ byteorder = "little"
    /\ documents = <<>>
    /\ index \in BuiltIndexes
    /\ disk = NoFile
    /\ dumped = NotDumped
    /\ cut = -1
    /\ loaded = NotRun
    /\ words = <<>>
    /\ answer = NotRun
    /\ threads \in [Threads -> {Call(ws) : ws \in Queries}]
    /\ NoLoader /\ NoQueryFile /\ NoAssets /\ NoAnalytics /\ NoReader

\* Mutant of IndexAfterWord: tmp shares the posting list it intersects.
IndexAfterWordShared(idx, word, tmp) ==
    IF tmp = Unset THEN idx
    ELSE LET Kept(id) == id \in tmp[1]
         IN  DictSet(idx, word, SelectSeq(DictGet(idx, word), Kept))

\* self._index after a turn of the loop: set(self._index[word]) is a copy,
\* and only tmp is assigned or updated
IndexAfterWord(idx, word, tmp) == idx

\* the turn of the loop of call t for its next word
query_word(t) ==
    LET call == threads[t]
        word == call.words[call.seen + 1]
    IN  /\ call.result.status = "none"
        /\ call.seen < Len(call.words)
        /\ IF word \in Keys(index)
           THEN /\ threads' = [threads EXCEPT ![t].seen = call.seen + 1,
                                              ![t].tmp = Accumulate(call.tmp, DictGet(index, word))]
                /\ index' = IndexAfterWord(index, word, call.tmp)
           ELSE /\ threads' = [threads EXCEPT ![t].result = MissingWord(call.tmp)]
                /\ index' = index

\* return list(tmp) of call t, after its last word
query_return(t) ==
    LET call == threads[t]
    IN  /\ call.result.status = "none"
        /\ call.seen = Len(call.words)
        /\ threads' = [threads EXCEPT ![t].result = AllWordsSeen(call.tmp)]
        /\ index' = index

query_step ==
    /\ pc = "built"
    /\ \E t \in Threads : query_word(t) \/ query_return(t)
    /\ UNCHANGED <<pc, byteorder, documents, disk, dumped, cut, loaded, words, answer>>
    /\ UNCHANGED <<loaderVars, queryFileVars, assetVars, analyticsVars, readerVars>>

NextThreads == query_step

SpecThreads == InitThreads /\ [][NextThreads]_vars

\* C18: no step of a query call changes the index, and under every
\* interleaving a call returns what InvertedIndex.query returns for its words
\* when run alone.
C18_ConcurrentQueries ==
    [][/\ index' = index
       /\ \A t \in Threads :
            threads'[t].result.status # "none" =>
                threads'[t].result = InvertedIndex_query(index, threads'[t].words)]_vars

\* one call has returned ids while the other is between its two words
C18_Witness ==
    /\ threads # <<>>
    /\ Len(threads[1].words) = 2 /\ threads[1].seen = 1 /\ threads[1].result.status = "none"
    /\ Len(threads[2].words) = 2 /\ threads[2].result.status = "ok"
    /\ threads[2].result.value # {}
    /\ threads[1].words # threads[2].words


(***************************************************************************)
(* The asset web service: app.bank and the routes that add, list and clear *)
(* its assets, one request handled after another.                          *)
(***************************************************************************)
MaxRequests == 4    \* requests the service answers

Names == {"Vasya", "Masha"}
CharCodes == {"EU", "USD"}
Capitals == {1, 12}
Interests == {12}

Asset(name, capital, interest, char_code) ==
    [name |-> name, capital |-> capital, interest |-> interest, char_code |-> char_code]

\* self.asset_list.append(item)
Bank_add(asset_list, item) == Append(asset_list, item)

\* Mutant of Bank_contains: the whole asset is compared, not its name.
Bank_contains_asset(asset_list, item) ==
    \E i \in 1..Len(asset_list) : asset_list[i] = item

\* for asset in self.asset_list: if asset.name == item.name: return True
Bank_contains(asset_list, item) ==
    \E i \in 1..Len(asset_list) : asset_list[i].name = item.name

\* [item.char_code, item.name, str(item.capital), str(item.interest)] of every item
Bank_get_json(asset_list) ==
    [i \in 1..Len(asset_list) |->
        <<asset_list[i].char_code, asset_list[i].name,
          Str(asset_list[i].capital), Str(asset_list[i].interest)>>]

\* Mutant of Bank_clear: only the last asset is removed.
Bank_clear_last(asset_list) == Take(asset_list, Len(asset_list) - 1)

\* self.asset_list.clear()
Bank_clear(asset_list) == <<>>

OkStatus == 200
ForbiddenStatus == 403

\* make_response(body, status) or jsonify(data), with the request it answers
Response(route, name, status, body) ==
    [route |-> route, name |-> name, status |-> status, body |-> body]

\* app.bank = Bank(): the service has started and answered nothing yet
InitAsset ==
    /\ pc = "serving"
    /\ byteorder = "little"
    /\ documents = <<>>
    /\ index = <<>>
    /\ disk = NoFile
    /\ dumped = NotDumped
    /\ cut = -1
    /\ loaded = NotRun
    /\ words = <<>>
    /\ answer = NotRun
    /\ bank = <<>>
    /\ history = <<>>
    /\ cbr = NoCbr
    /\ inflight = <<>>
    /\ NoLoader /\ NoQueryFile /\ NoThreads /\ NoAnalytics /\ NoReader

Serving == pc = "serving" /\ Len(history) < MaxRequests

\* GET /api/asset/add/<char_code>/<name>/<capital>/<interest>
add_asset_api ==
    /\ Serving
    /\ \E char_code \in CharCodes, name \in Names, capital \in Capitals, interest \in Interests :
         LET new_asset == Asset(name, capital, interest, char_code)
         IN  IF Bank_contains(bank, new_asset)
             THEN /\ bank' = bank
                  /\ history' = Append(history,
                        Response("add", name, ForbiddenStatus, <<"Name has already exist">>))
             ELSE /\ bank' = Bank_add(bank, new_asset)
                  /\ history' = Append(history,
                        Response("add", name, OkStatus,
                                 <<"Asset '", name, "' was successfully added">>))
    /\ UNCHANGED <<cbr, inflight>>
    /\ UNCHANGED <<indexVars, loaderVars, queryFileVars, threads, analyticsVars, readerVars>>

\* GET /asset/cleanup
clear_api ==
    /\ Serving
    /\ bank' = Bank_clear(bank)
    /\ history' = Append(history, Response("cleanup", "", OkStatus, <<"Successfully cleared">>))
    /\ UNCHANGED <<cbr, inflight>>
    /\ UNCHANGED <<indexVars, loaderVars, queryFileVars, threads, analyticsVars, readerVars>>

\* GET /api/asset/list
asset_list_api ==
    /\ Serving
    /\ history' = Append(history, Response("list", "", OkStatus, Bank_get_json(bank)))
    /\ UNCHANGED <<bank, cbr, inflight>>
    /\ UNCHANGED <<indexVars, loaderVars, queryFileVars, threads, analyticsVars, readerVars>>

NextAsset == add_asset_api \/ clear_api \/ asset_list_api

SpecAsset == InitAsset /\ [][NextAsset]_vars


(***************************************************************************)
(* Claims about the asset web service.                                     *)
(***************************************************************************)
NamesIn(asset_list) == {asset_list[i].name : i \in 1..Len(asset_list)}

UniqueNames(asset_list) ==
    \A i, j \in 1..Len(asset_list) : asset_list[i].name = asset_list[j].name => i = j

\* the response of the step that was just taken
Answered == history'[Len(history')]

\* the step answers a request to the given route
Handles(route) == history' # history /\ Answered.route = route

\* C19: no two assets of the bank have one name; an add of a name the bank
\* has returns 403 and leaves the asset list as it was, any other add
\* returns 200 and appends one asset, of that name, to the list.
C19_UniqueNames ==
    [][/\ UniqueNames(bank')
       /\ Handles("add") =>
            IF Answered.name \in NamesIn(bank)
            THEN Answered.status = 403 /\ bank' = bank
            ELSE /\ Answered.status = 200
                 /\ Len(bank') = Len(bank) + 1
                 /\ SubSeq(bank', 1, Len(bank)) = bank
                 /\ bank'[Len(bank')].name = Answered.name]_vars

\* an asset was added after another, and an add of its name was refused
C19_Witness ==
    /\ Len(bank) = 2
    /\ Len(history) = 3
    /\ history[2].status = 200
    /\ history[3].status = 403
    /\ history[3].name = bank[2].name

\* since the last cleanup the service has answered nothing but list requests
JustCleared ==
    \E i \in 1..Len(history) :
        /\ history[i].route = "cleanup"
        /\ \A j \in (i + 1)..Len(history) : history[j].route = "list"

\* C20: a cleanup returns 200 and leaves the bank empty; after it a list
\* request returns the empty list and an add of any name returns 200.
C20_Cleanup ==
    [][/\ Handles("cleanup") => Answered.status = 200 /\ bank' = <<>>
       /\ (JustCleared /\ Handles("list")) => Answered.status = 200 /\ Answered.body = <<>>
       /\ (JustCleared /\ Handles("add")) =>
            Answered.status = 200 /\ NamesIn(bank') = {Answered.name}]_vars

\* a name is refused, the bank is cleared, and the same name is added
C20_Witness ==
    /\ Len(history) = 4
    /\ history[2].route = "add" /\ history[2].status = 403
    /\ history[3].route = "cleanup" /\ history[3].status = 200
    /\ history[4].route = "add" /\ history[4].status = 200
    /\ history[4].name = history[2].name
    /\ Len(bank) = 1


(***************************************************************************)
(* The routes of the asset web service that read cbr.ru. A page is what    *)
(* BeautifulSoup finds in it: tables, rows and cells. A cell has its text  *)
(* and, where the text is a number, the value float() gives it; rates are  *)
(* kept as the pair of the numbers divided, and a revenue as the terms it  *)
(* sums.                                                                   *)
(***************************************************************************)
MaxCalls == 2       \* requests that read cbr.ru

TextCell(text) == [text |-> text, numeric |-> FALSE, value |-> 0]
NumberCell(text, value) == [text |-> text, numeric |-> TRUE, value |-> value]

\* float(string.replace(",", "")): ValueError unless the text is a number
cbr_float(cell) ==
    IF cell.numeric THEN [status |-> "ok", value |-> cell.value] ELSE Raised("ValueError")

RECURSIVE DailyRows(_, _)
\* for row in rows: cols = row.find_all("td"); if len(cols) == 5: ...
DailyRows(rows, result) ==
    IF rows = <<>> THEN [status |-> "ok", value |-> result]
    ELSE LET cols == Head(rows)
         IN  IF Len(cols) # 5 THEN DailyRows(Tail(rows), result)
             ELSE IF cbr_float(cols[5]).status # "ok" THEN cbr_float(cols[5])
             ELSE IF cbr_float(cols[3]).status # "ok" THEN cbr_float(cols[3])
             ELSE IF cbr_float(cols[3]).value = 0 THEN Raised("ZeroDivisionError")
             ELSE DailyRows(Tail(rows),
                            DictSet(result, cols[2].text,
                                    <<cbr_float(cols[5]).value, cbr_float(cols[3]).value>>))

\* parse_cbr_currency_base_daily(html): table is None when the page has no
\* table of class "data", and table.find raises AttributeError
parse_cbr_currency_base_daily(page) ==
    IF ~page.table THEN Raised("AttributeError") ELSE DailyRows(page.rows, <<>>)

RECURSIVE KeyRows(_, _)
\* for row in rows[1:]: char_code = row.find("div", ...).text; value = ...
KeyRows(rows, result) ==
    IF rows = <<>> THEN [status |-> "ok", value |-> result]
    ELSE LET row == Head(rows)
         IN  IF ~row.subinfo THEN Raised("AttributeError")
             ELSE IF row.tds = <<>> THEN Raised("IndexError")
             ELSE IF cbr_float(row.tds[Len(row.tds)]).status # "ok"
             THEN cbr_float(row.tds[Len(row.tds)])
             ELSE KeyRows(Tail(rows),
                          DictSet(result, row.code, <<cbr_float(row.tds[Len(row.tds)]).value, 1>>))

RECURSIVE KeyTables(_, _)
\* for div_table in div_tables[:2]: rows = div_table.findAll("tr"); ...
KeyTables(div_tables, result) ==
    IF div_tables = <<>> THEN [status |-> "ok", value |-> result]
    ELSE LET rows == KeyRows(Tail(Head(div_tables)), result)
         IN  IF Head(div_tables) = <<>> THEN KeyTables(Tail(div_tables), result)
             ELSE IF rows.status # "ok" THEN rows
             ELSE KeyTables(Tail(div_tables), rows.value)

\* parse_cbr_key_indicators(html)
parse_cbr_key_indicators(page) == KeyTables(Take(page, IF Len(page) < 2 THEN Len(page) ELSE 2), <<>>)

\* the term item.calculate_revenue(period) * mapping of a total revenue
RevenueTerm(item, period, mapping) ==
    [capital |-> item.capital, interest |-> item.interest, years |-> period, rate |-> mapping]

\* mapping = key_interest_map[code] if code in key_interest_map else daily_map[code]
RateOf(char_code, key_interest_map, daily_map) ==
    IF char_code \in Keys(key_interest_map)
    THEN [status |-> "ok", value |-> DictGet(key_interest_map, char_code)]
    ELSE IF char_code \in Keys(daily_map)
    THEN [status |-> "ok", value |-> DictGet(daily_map, char_code)]
    ELSE Raised("KeyError")

RECURSIVE TotalFrom(_, _, _, _, _)
TotalFrom(asset_list, period, key_interest_map, daily_map, result) ==
    IF asset_list = <<>> THEN [status |-> "ok", value |-> result]
    ELSE LET item == Head(asset_list)
             mapping == RateOf(item.char_code, key_interest_map, daily_map)
         IN  IF mapping.status # "ok" THEN mapping
             ELSE TotalFrom(Tail(asset_list), period, key_interest_map, daily_map,
                            Append(result, RevenueTerm(item, period, mapping.value)))

\* Bank.total_revenue(period, key_interest_map, daily_map)
Bank_total_revenue(asset_list, period, key_interest_map, daily_map) ==
    TotalFrom(asset_list, period, key_interest_map, daily_map, <<>>)


\* the pages cbr.ru may answer with
HeaderCols == <<>>
EuroCols ==
    <<NumberCell("978", 978), TextCell("EU"), NumberCell("1", 1), TextCell("Euro"),
      NumberCell("90", 90)>>
\* a row whose rate is not a number
DashCols ==
    <<NumberCell("978", 978), TextCell("EU"), NumberCell("1", 1), TextCell("Euro"),
      TextCell("-")>>

NoTablePage == [table |-> FALSE, rows |-> <<>>]
DailyPage(rows) == [table |-> TRUE, rows |-> rows]
DailyPages == {NoTablePage, DailyPage(<<HeaderCols, EuroCols>>), DailyPage(<<HeaderCols, DashCols>>)}

HeaderRow == [subinfo |-> FALSE, code |-> "", tds |-> <<>>]
DollarRow == [subinfo |-> TRUE, code |-> "USD", tds |-> <<TextCell("US dollar"), NumberCell("75", 75)>>]
\* a row without the div that holds the code
BareRow == [subinfo |-> FALSE, code |-> "", tds |-> <<NumberCell("75", 75)>>]
KeyPages == {<<>>, <<<<HeaderRow, DollarRow>>>>, <<<<HeaderRow, BareRow>>>>}

\* requests.get(url) returns a response with the page, or raises
Got(page) == [status |-> "ok", page |-> page]
Unreachable == [status |-> "ConnectionError", page |-> <<>>]

DailyGets == {Unreachable} \cup {Got(page) : page \in DailyPages}
KeyGets == {Unreachable} \cup {Got(page) : page \in KeyPages}

\* request.args.getlist('period'): the texts "1" and "a"
PeriodArgs == {<<>>, <<<<49>>>>, <<<<97>>>>}

UnavailableStatus == 503

\* Mutant of cbr_unavailable_found: the error goes out as a 500.
internal_server_error(route) ==
    Response(route, "", 500, <<"Internal Server Error">>)

\* @app.errorhandler(500): Flask hands it every exception a route lets out
cbr_unavailable_found(route) ==
    Response(route, "", UnavailableStatus, <<"CBR service is unavailable">>)

\* the response of a route whose handler returned jsonify(result) or raised
Respond(route, result) ==
    IF result.status = "ok" THEN Response(route, "", OkStatus, result.value)
    ELSE cbr_unavailable_found(route)

\* what the handler let out
Let_out(result) == IF result.status = "ok" THEN "none" ELSE result.status

\* parse_cbr_key_indicators(response.text), when requests.get returned
ParsedKey(got) ==
    IF got.status # "ok" THEN Raised(got.status) ELSE parse_cbr_key_indicators(got.page)

\* parse_cbr_currency_base_daily(response.text), when requests.get returned
ParsedDaily(got) ==
    IF got.status # "ok" THEN Raised(got.status) ELSE parse_cbr_currency_base_daily(got.page)

RECURSIVE RevenueLoop(_, _, _, _, _)
\* for period in periods: data[period] = str(app.bank.total_revenue(int(period), ...))
RevenueLoop(periods, asset_list, interest_map, daily_map, data) ==
    IF periods = <<>> THEN [status |-> "ok", value |-> data]
    ELSE LET period == Head(periods)
             total == Bank_total_revenue(asset_list, IntOf(period), interest_map, daily_map)
         IN  IF IntRaises(period) THEN Raised("ValueError")
             ELSE IF total.status # "ok" THEN total
             ELSE RevenueLoop(Tail(periods), asset_list, interest_map, daily_map,
                              DictSet(data, period, total.value))

\* the body of asset_calc_revenue_api
asset_calc_revenue(periods, got_interest, got_daily, asset_list) ==
    LET interest_map == ParsedKey(got_interest)
        daily_map == ParsedDaily(got_daily)
    IN  IF got_interest.status # "ok" THEN Raised(got_interest.status)
        ELSE IF got_daily.status # "ok" THEN Raised(got_daily.status)
        ELSE IF interest_map.status # "ok" THEN interest_map
        ELSE IF daily_map.status # "ok" THEN daily_map
        ELSE RevenueLoop(periods, asset_list, interest_map.value, daily_map.value, <<>>)

Assets ==
    {Asset(name, capital, interest, char_code) :
        name \in Names, capital \in Capitals, interest \in Interests, char_code \in CharCodes}

\* the asset lists that adds can make
Banks == {b \in SeqsUpTo(Assets, Cardinality(Names)) : UniqueNames(b)}

\* the service holds some assets and is about to answer a request
InitCbr ==
    /\ pc = "serving"
    /\ byteorder = "little"
    /\ documents = <<>>
    /\ index = <<>>
    /\ disk = NoFile
    /\ dumped = NotDumped
    /\ cut = -1
    /\ loaded = NotRun
    /\ words = <<>>
    /\ answer = NotRun
    /\ bank \in Banks
    /\ history = <<>>
    /\ cbr = NoCbr
    /\ inflight = <<>>
    /\ NoLoader /\ NoQueryFile /\ NoThreads /\ NoAnalytics /\ NoReader

ServingCbr == pc = "serving" /\ Len(history) < MaxCalls

\* GET /cbr/daily
cbr_daily_api ==
    /\ ServingCbr
    /\ \E got \in DailyGets :
         LET result == ParsedDaily(got)
         IN  /\ history' = Append(history, Respond("daily", result))
             /\ cbr' = [periods |-> <<>>, interest |-> NotCalled, daily |-> got,
                       raised |-> Let_out(result)]
    /\ UNCHANGED <<bank, inflight>>
    /\ UNCHANGED <<indexVars, loaderVars, queryFileVars, threads, analyticsVars, readerVars>>

\* GET /cbr/key_indicators
cbr_interest_key_api ==
    /\ ServingCbr
    /\ \E got \in KeyGets :
         LET result == ParsedKey(got)
         IN  /\ history' = Append(history, Respond("key_indicators", result))
             /\ cbr' = [periods |-> <<>>, interest |-> got, daily |-> NotCalled,
                       raised |-> Let_out(result)]
    /\ UNCHANGED <<bank, inflight>>
    /\ UNCHANGED <<indexVars, loaderVars, queryFileVars, threads, analyticsVars, readerVars>>

\* GET /api/asset/calculate_revenue?period=...
asset_calc_revenue_api ==
    /\ ServingCbr
    /\ \E periods \in PeriodArgs, got_interest \in KeyGets :
         \E got_daily \in IF got_interest.status = "ok" THEN DailyGets ELSE {NotCalled} :
            LET result == asset_calc_revenue(periods, got_interest, got_daily, bank)
            IN  /\ history' = Append(history, Respond("calculate_revenue", result))
                /\ cbr' = [periods |-> periods, interest |-> got_interest,
                           daily |-> got_daily,
                           raised |-> Let_out(result)]
    /\ UNCHANGED <<bank, inflight>>
    /\ UNCHANGED <<indexVars, loaderVars, queryFileVars, threads, analyticsVars, readerVars>>

NextCbr == cbr_daily_api \/ cbr_interest_key_api \/ asset_calc_revenue_api

SpecCbr == InitCbr /\ [][NextCbr]_vars


\* ---- C21 ----
CbrRoutes == {"daily", "key_indicators", "calculate_revenue"}

\* requests.get could not fetch a page
C21_PageMissing ==
    cbr'.interest.status = "ConnectionError" \/ cbr'.daily.status = "ConnectionError"

\* the daily page has no table of rates, or a row of five cells whose numbers do not read
C21_DailyUnparsable ==
    /\ cbr'.daily.status = "ok"
    /\ LET page == cbr'.daily.page
       IN  \/ ~page.table
           \/ \E i \in DOMAIN page.rows :
                /\ Len(page.rows[i]) = 5
                /\ ~page.rows[i][3].numeric \/ ~page.rows[i][5].numeric

\* one of the first two indicator tables has a data row without a code or without a number
C21_KeyUnparsable ==
    /\ cbr'.interest.status = "ok"
    /\ LET page == cbr'.interest.page
       IN  \E t \in DOMAIN page : \E i \in DOMAIN page[t] :
              /\ t <= 2
              /\ i >= 2
              /\ LET row == page[t][i]
                 IN  \/ ~row.subinfo
                     \/ row.tds = <<>>
                     \/ ~row.tds[Len(row.tds)].numeric

\* calculate_revenue has read both maps and meets an asset whose currency is in neither
C21_UnknownCurrency ==
    /\ Answered.route = "calculate_revenue"
    /\ cbr'.periods # <<>>
    /\ ~IntRaises(Head(cbr'.periods))
    /\ ~C21_PageMissing /\ ~C21_DailyUnparsable /\ ~C21_KeyUnparsable
    /\ \E i \in DOMAIN bank :
         bank[i].char_code \notin
            Keys(parse_cbr_key_indicators(cbr'.interest.page).value)
              \cup Keys(parse_cbr_currency_base_daily(cbr'.daily.page).value)

C21_Unavailable ==
    /\ Answered.status = 503
    /\ Answered.status # 500
    /\ Answered.body = <<"CBR service is unavailable">>
    /\ bank' = bank

\* C21: whenever a route handler lets an exception out (the upstream page is missing or
\* does not parse, or calculate_revenue meets an asset whose currency code is in neither
\* rate map), the client receives status 503 with the body 'CBR service is unavailable',
\* never a 500, and the bank's asset list is unchanged.
C21_FailureMapping ==
    [][\A route \in CbrRoutes :
         Handles(route) =>
            /\ cbr'.raised # "none" => C21_Unavailable
            /\ C21_PageMissing \/ C21_DailyUnparsable \/ C21_KeyUnparsable
                 \/ C21_UnknownCurrency => cbr'.raised # "none" /\ C21_Unavailable
            /\ C21_UnknownCurrency => cbr'.raised = "KeyError"]_vars

\* calculate_revenue met an asset of a currency in neither map and answered 503
C21_Witness ==
    /\ history # <<>>
    /\ history[Len(history)].route = "calculate_revenue"
    /\ history[Len(history)].status = 503
    /\ cbr.raised = "KeyError"
    /\ cbr.interest.status = "ok" /\ cbr.daily.status = "ok"
    /\ bank # <<>>


(***************************************************************************)
(* stackoverflow_analytics: load_data and proceed_query.                   *)
(***************************************************************************)
MaxPosts == 2       \* rows of the questions file
MaxTop == 3         \* largest top a query asks for

QUESTION_TYPE == 1

\* str.lower() of one character, for ASCII
LowerChar(c) == IF c \in 65..90 THEN c + 32 ELSE c

Lower(string) == [i \in 1..Len(string) |-> LowerChar(string[i])]

\* a character that \w matches, for ASCII
IsWordChar(c) == c \in (48..57) \cup (65..90) \cup (97..122) \cup {95}

RECURSIVE FindWords(_, _, _)
\* WORD_RE.findall(string): the maximal runs of word characters, left to right
FindWords(string, run, found) ==
    LET closed == IF run = <<>> THEN found ELSE Append(found, run)
    IN  IF string = <<>> THEN closed
        ELSE IF IsWordChar(Head(string))
        THEN FindWords(Tail(string), Append(run, Head(string)), found)
        ELSE FindWords(Tail(string), <<>>, closed)

get_words(string) == FindWords(Lower(string), <<>>, <<>>)

\* the attributes of a row, as the texts ElementTree gives
PostRow(date, post_type, score, title) ==
    [CreationDate |-> date, PostTypeId |-> post_type, Score |-> score, Title |-> title]

parse_xml(row) ==
    [year |-> IntOf(Take(row.CreationDate, 4)),
     post_type |-> IntOf(row.PostTypeId),
     score |-> IntOf(row.Score),
     title |-> row.Title]

\* Mutant of WordsOnce: a word counts as often as the title repeats it.
WordsEveryTime(found) == {found}

\* for word in set(words): each word once, in an order the set decides
WordsOnce(found) == ListOfSet(Range(found))

\* result[year][word] += score, or = score for a new word; result is a defaultdict(dict)
StoreWord(result, year, word, score) ==
    LET of_year == IF year \in Keys(result) THEN DictGet(result, year) ELSE <<>>
        total == IF word \in Keys(of_year) THEN DictGet(of_year, word) + score ELSE score
    IN  DictSet(result, year, DictSet(of_year, word, total))

RECURSIVE StoreWords(_, _, _)
StoreWords(result, xml_info, word_list) ==
    IF word_list = <<>> THEN result
    ELSE StoreWords(StoreWord(result, xml_info.year, Head(word_list), xml_info.score),
                    xml_info, Tail(word_list))

RECURSIVE LoadRows(_, _)
\* the results load_data may return for the rows left, each a year -> word -> score mapping
LoadRows(rows, result) ==
    IF rows = <<>> THEN {result}
    ELSE LET xml_info == parse_xml(Head(rows))
         IN  IF xml_info.post_type = QUESTION_TYPE
             THEN UNION {LoadRows(Tail(rows), StoreWords(result, xml_info, word_list)) :
                            word_list \in WordsOnce(get_words(xml_info.title))}
             ELSE LoadRows(Tail(rows), result)

load_data(rows) == LoadRows(rows, <<>>)

RECURSIVE StrLess(_, _)
\* a < b for strings: by code point, a proper prefix first
StrLess(a, b) ==
    IF b = <<>> THEN FALSE
    ELSE IF a = <<>> THEN TRUE
    ELSE IF Head(a) # Head(b) THEN Head(a) < Head(b)
    ELSE StrLess(Tail(a), Tail(b))

WordScore(word, score) == [word |-> word, score |-> score]

\* Mutant of WordScore_lt: ties are not told apart.
WordScore_lt_score(self, other) == self.score < other.score

\* WordScore.__lt__
WordScore_lt(self, other) ==
    IF self.score < other.score THEN TRUE
    ELSE IF self.score = other.score THEN StrLess(other.word, self.word)
    ELSE FALSE

RECURSIVE InsertDescending(_, _)
\* x goes before the first element that is less than it
InsertDescending(x, list) ==
    IF list = <<>> THEN <<x>>
    ELSE IF WordScore_lt(Head(list), x) THEN <<x>> \o list
    ELSE <<Head(list)>> \o InsertDescending(x, Tail(list))

RECURSIVE SortedReverse(_, _)
\* sorted(list, reverse=True): stable, by __lt__ alone
SortedReverse(list, done) ==
    IF list = <<>> THEN done
    ELSE SortedReverse(Tail(list), InsertDescending(Head(list), done))

\* list[:top]
SliceTo(list, top) ==
    IF top >= 0 THEN Take(list, IF top < Len(list) THEN top ELSE Len(list))
    ELSE Take(list, IF Len(list) + top > 0 THEN Len(list) + top ELSE 0)

RECURSIVE AddItems(_, _, _)
\* for word, score in data[year].items(): if word not in stopwords: result[word] += score
AddItems(items, stops, result) ==
    IF items = <<>> THEN result
    ELSE LET word == Head(items).key
             score == Head(items).value
             before == IF word \in Keys(result) THEN DictGet(result, word) ELSE 0
         IN  AddItems(Tail(items), stops,
                      IF word \notin stops THEN DictSet(result, word, before + score)
                      ELSE result)

\* Mutant of DataAfterCheck: data[year] is read without the check, and the defaultdict
\* stores an empty mapping for a year it did not have.
DataAfterRead(mapping, year) ==
    IF year \in Keys(mapping) THEN mapping ELSE DictSet(mapping, year, <<>>)

\* if year in data: the check stores nothing
DataAfterCheck(mapping, year) == mapping

RECURSIVE YearLoop(_, _, _, _, _)
\* for year in range(start, end + 1): the totals, and data as the loop leaves it
YearLoop(mapping, stops, year, end, result) ==
    IF year > end THEN [data |-> mapping, result |-> result]
    ELSE YearLoop(DataAfterCheck(mapping, year), stops, year + 1, end,
                  IF year \in Keys(mapping)
                  THEN AddItems(DictGet(mapping, year), stops, result)
                  ELSE result)

QueryData(start, end, top) == [start |-> start, end |-> end, top |-> top]

\* the dict proceed_query returns, with the query, and data as the call leaves it
proceed_query(mapping, stops, q) ==
    LET looped == YearLoop(mapping, stops, q.start, q.end, <<>>)
        result == SortedReverse(
                      [i \in 1..Len(looped.result) |->
                          WordScore(looped.result[i].key, looped.result[i].value)], <<>>)
        top == SliceTo(result, q.top)
    IN  [data |-> looped.data,
         reply |-> [query |-> <<q>>, start |-> q.start, end |-> q.end,
                    top |-> [i \in 1..Len(top) |-> <<top[i].word, top[i].score>>]]]

\* "2008-...", "2009-..."
Dates == {<<50, 48, 48, 56, 45>>, <<50, 48, 48, 57, 45>>}
\* "1" a question, "2" an answer
PostTypes == {<<49>>, <<50>>}
\* "-1", "3"
Scores == {<<Minus, 49>>, <<51>>}
\* "A a", "a b", "ab"
Titles == {<<65, 32, 97>>, <<97, 32, 98>>, <<97, 98>>}

Posts ==
    {PostRow(date, post_type, score, title) :
        date \in Dates, post_type \in PostTypes, score \in Scores, title \in Titles}

\* none, and "a"
StopwordSets == {{}, {<<97>>}}

\* a query starts in a year with rows and ends there or in 2010, a year without
QueryStarts == {2008, 2009}
QueryEnds == {2008, 2009, 2010}
Tops == (0 - 1)..MaxTop

InitAnalytics ==
    /\ pc = "start"
    /\ byteorder = "little"
    /\ documents = <<>>
    /\ index = <<>>
    /\ disk = NoFile
    /\ dumped = NotDumped
    /\ cut = -1
    /\ loaded = NotRun
    /\ words = <<>>
    /\ answer = NotRun
    /\ NoLoader /\ NoQueryFile /\ NoThreads /\ NoAssets /\ NoReader
    /\ \E n \in 0..MaxPosts : posts \in [1..n -> Posts]
    /\ stopwords \in StopwordSets
    /\ parsed_data = <<>>
    /\ reply = NoReply

\* parsed_data = load_data(arguments.data_path)
load_data_step ==
    /\ pc = "start"
    /\ pc' = "loaded"
    /\ parsed_data' \in load_data(posts)
    /\ UNCHANGED <<posts, stopwords, reply>>
    /\ UNCHANGED <<byteorder, documents, index, disk, dumped, cut, loaded, words, answer>>
    /\ UNCHANGED <<loaderVars, queryFileVars, threads, assetVars, readerVars>>

\* proceed_query(parsed_data, stopwords, query) for the query of a queries file of one row
proceed_query_step ==
    /\ pc = "loaded"
    /\ pc' = "answered"
    /\ \E start \in QueryStarts, end \in QueryEnds, top \in Tops :
         LET done == proceed_query(parsed_data, stopwords, QueryData(start, end, top))
         IN  /\ parsed_data' = done.data
             /\ reply' = done.reply
    /\ UNCHANGED <<posts, stopwords>>
    /\ UNCHANGED <<byteorder, documents, index, disk, dumped, cut, loaded, words, answer>>
    /\ UNCHANGED <<loaderVars, queryFileVars, threads, assetVars, readerVars>>

NextAnalytics == load_data_step \/ proceed_query_step

SpecAnalytics == InitAnalytics /\ [][NextAnalytics]_vars


\* ---- C22 ----
\* the query the reply answers
Asked == reply.query[1]

\* the words data holds in the years start..end that are not stopwords
C22_Words ==
    {word \in UNION {Keys(DictGet(parsed_data, year)) :
                        year \in {y \in Keys(parsed_data) : Asked.start <= y /\ y <= Asked.end}} :
        word \notin stopwords}

C22_Ranked(top) ==
    \A i \in 1..(Len(top) - 1) :
        \/ top[i][2] > top[i + 1][2]
        \/ top[i][2] = top[i + 1][2] /\ StrLess(top[i][1], top[i + 1][1])

\* C22: for a query with top >= 0 the 'top' list of proceed_query is ordered by score
\* descending with ties broken by word ascending, holds no stopword and no word twice,
\* and has length min(top, number of distinct non-stopword words in the years
\* start..end); when fewer than top words exist it holds them all.
C22_Ranking ==
    pc = "answered" /\ Asked.top >= 0 =>
        /\ C22_Ranked(reply.top)
        /\ \A i \in DOMAIN reply.top : reply.top[i][1] \notin stopwords
        /\ \A i, j \in DOMAIN reply.top : i # j => reply.top[i][1] # reply.top[j][1]
        /\ Len(reply.top) =
              IF Asked.top < Cardinality(C22_Words) THEN Asked.top ELSE Cardinality(C22_Words)
        /\ {reply.top[i][1] : i \in DOMAIN reply.top} \subseteq C22_Words
        /\ Cardinality(C22_Words) <= Asked.top =>
              {reply.top[i][1] : i \in DOMAIN reply.top} = C22_Words

\* a query for fewer words than there are, answered with two words of one score
C22_Witness ==
    /\ pc = "answered"
    /\ Asked.top = 2
    /\ Cardinality(C22_Words) > 2
    /\ Len(reply.top) = 2
    /\ reply.top[1][2] = reply.top[2][2]

\* a query for more words than are left once the stopwords are dropped
C22_WitnessAll ==
    /\ pc = "answered"
    /\ Asked.top > Len(reply.top)
    /\ Len(reply.top) > 0
    /\ stopwords # {}

\* ---- C23 ----
RECURSIVE C23_Sum(_, _, _)
\* the sum of data[y][word] over the years year..end that have the word
C23_Sum(word, year, end) ==
    IF year > end THEN 0
    ELSE (IF year \in Keys(parsed_data) /\ word \in Keys(DictGet(parsed_data, year))
          THEN DictGet(DictGet(parsed_data, year), word) ELSE 0)
         + C23_Sum(word, year + 1, end)

\* C23: the score proceed_query reports for a word is the sum of data[y][word] over the
\* years start <= y <= end that have the word; a range with start > end yields an empty
\* 'top'; the data and stopword arguments are left unchanged.
C23_Aggregation ==
    [][pc = "loaded" /\ pc' = "answered" =>
         /\ \A i \in DOMAIN reply'.top :
               reply'.top[i][2] = C23_Sum(reply'.top[i][1], reply'.start, reply'.end)
         /\ reply'.start > reply'.end => reply'.top = <<>>
         /\ parsed_data' = parsed_data
         /\ stopwords' = stopwords]_vars

\* a word of two years reported for a range that holds both and a year without data
C23_Witness ==
    /\ pc = "answered"
    /\ Asked.start = 2008 /\ Asked.end = 2010
    /\ \E i \in DOMAIN reply.top :
          /\ \A year \in {2008, 2009} :
                year \in Keys(parsed_data) /\ reply.top[i][1] \in Keys(DictGet(parsed_data, year))
          /\ DictGet(DictGet(parsed_data, 2008), reply.top[i][1]) # reply.top[i][2]

\* ---- C24 ----
\* the rows that are questions of the year with the word in the title
C24_Rows(year, word) ==
    {i \in DOMAIN posts :
        /\ parse_xml(posts[i]).post_type = 1
        /\ parse_xml(posts[i]).year = year
        /\ word \in Range(get_words(posts[i].Title))}

C24_Score(year, word) ==
    SumSeq([i \in DOMAIN posts |->
               IF i \in C24_Rows(year, word) THEN parse_xml(posts[i]).score ELSE 0])

\* C24: load_data returns, for each year, a word -> score mapping in which the score of a
\* word is the sum of Score over the question rows of that year whose title has the word,
\* each row counted once per distinct lower-cased word; rows of other post types
\* contribute nothing.
C24_Loading ==
    [][pc = "start" /\ pc' = "loaded" =>
         /\ \A year \in Keys(parsed_data') : \A word \in Keys(DictGet(parsed_data', year)) :
               /\ C24_Rows(year, word) # {}
               /\ DictGet(DictGet(parsed_data', year), word) = C24_Score(year, word)
         /\ \A i \in DOMAIN posts : \A word \in Range(get_words(posts[i].Title)) :
               parse_xml(posts[i]).post_type = 1 =>
                  /\ parse_xml(posts[i]).year \in Keys(parsed_data')
                  /\ word \in Keys(DictGet(parsed_data', parse_xml(posts[i]).year))]_vars

\* a question whose title repeats a word in another case, next to an answer of that year
C24_Witness ==
    /\ pc = "loaded"
    /\ Len(posts) = 2
    /\ posts[1].Title = <<65, 32, 97>> /\ parse_xml(posts[1]).post_type = 1
    /\ parse_xml(posts[2]).post_type = 2
    /\ posts[2].CreationDate = posts[1].CreationDate
    /\ DictGet(DictGet(parsed_data, parse_xml(posts[1]).year), <<97>>) = parse_xml(posts[1]).score


\* ---- C25 ----
\* the term lists that hold the terms of ws in another order
C25_Reordered(ws) == {[i \in DOMAIN ws |-> ws[f[i]]] : f \in Permutations(DOMAIN ws)}

\* the term lists that hold the terms of ws with one of them once more, at any place
C25_Repeated(ws) ==
    UNION {C25_Reordered(Append(ws, ws[i])) : i \in DOMAIN ws}

\* C25: for a non-empty term list the set of ids InvertedIndex.query returns is the same
\* for every permutation of the list and when a term of it is repeated; appending a
\* further term never adds an id.
C25_OrderIndependence ==
    pc = "queried" /\ words # <<>> =>
        /\ answer.status = "ok"
        /\ \A other \in C25_Reordered(words) \cup C25_Repeated(words) :
              /\ InvertedIndex_query(index, other).status = "ok"
              /\ InvertedIndex_query(index, other).value = Range(answer.value)
        /\ \A further \in Words :
              InvertedIndex_query(index, Append(words, further)).value
                 \subseteq Range(answer.value)

\* a query of two terms with different postings that some document satisfies
C25_Witness ==
    /\ pc = "queried"
    /\ Len(words) = 2
    /\ words[1] # words[2]
    /\ answer.value # <<>>
    /\ Range(DictGet(index, words[1])) # Range(DictGet(index, words[2]))


(***************************************************************************)
(* StructStoragePolicy.load, one loop iteration at a time, on byte streams *)
(* in the layout of dump and on their prefixes.                            *)
(***************************************************************************)
MaxRecords == 2     \* records of a byte stream

\* the headers: one for each value width
StreamHeaders == {3, WidthLimit}
\* the postings of a record: none, one id, two ids
StreamPostings == {<<>>, <<3>>, <<65534, 3>>}

\* the records of a stream; a term may come more than once
RecordLists == SeqsUpTo([key : Words, value : StreamPostings], MaxRecords)

RECURSIVE PackRecords(_, _)
\* the records in the layout dump writes: key length, key, count, values
PackRecords(records, value_fmt) ==
    IF records = <<>> THEN <<>>
    ELSE LET key_bytes == EncodeUtf8(Head(records).key)
         IN  BigEndian(Len(key_bytes), 2) \o key_bytes
               \o BigEndian(Len(Head(records).value), SizeOf(value_fmt))
               \o PackAll(value_fmt, Head(records).value)
               \o PackRecords(Tail(records), value_fmt)

\* a well-formed byte stream: the header, then the records in the width it announces
Stream(order, header, records) ==
    PackNative(order, header) \o PackRecords(records, load_value_fmt(header))

InitReader ==
    /\ pc = "stored"
    /\ byteorder \in ByteOrders
    /\ documents = <<>>
    /\ index = <<>>
    /\ \/ disk = NoFile
       \/ \E header \in StreamHeaders, records \in RecordLists :
             LET bytes == Stream(byteorder, header, records)
             IN  \E n \in 0..Len(bytes) : disk = File(Take(bytes, n))
    /\ dumped = NotDumped
    /\ cut = -1
    /\ loaded = NotRun
    /\ words = <<>>
    /\ answer = NotRun
    /\ NoLoader /\ NoQueryFile /\ NoThreads /\ NoAssets /\ NoAnalytics /\ NoReader

\* Mutant of WithExit: the file object is left open.
WithLeft(r, status, error) == [r EXCEPT !.status = status, !.error = error]

\* the with block is left, by return or by an exception: fio is closed
WithExit(r, status, error) == [r EXCEPT !.status = status, !.error = error, !.open = FALSE]

\* open(filepath, 'rb'), fstat, and the header
load_open ==
    /\ reader.status = "none"
    /\ LET file == disk.data
           b_max == Read(file, 0, 4)
           max_value == UnpackNative(byteorder, b_max)
           opened == [reader EXCEPT !.open = TRUE, !.file_size = Len(file)]
       IN  reader' =
             IF ~disk.exists
             THEN [reader EXCEPT !.status = "raised", !.error = "FileNotFoundError"]
             ELSE IF UnpackRaises(4, b_max)
             THEN WithExit(opened, "raised", "struct.error")
             ELSE [opened EXCEPT !.status = "reading",
                                 !.pos = 4,
                                 !.file_size = Len(file) - 4,
                                 !.value_fmt = load_value_fmt(max_value),
                                 !.value_size = load_value_size(max_value)]
    /\ UNCHANGED <<indexVars, loaderVars, queryFileVars, threads, assetVars, analyticsVars>>

\* one iteration of while file_size > 0
load_record ==
    /\ reader.status = "reading"
    /\ MoreRecords(reader.file_size)
    /\ LET record == ReadRecord(disk.data, reader.pos, reader.file_size,
                                reader.value_fmt, reader.value_size, reader.index)
       IN  reader' =
             IF record.status # "ok" THEN WithExit(reader, "raised", record.status)
             ELSE [reader EXCEPT !.pos = record.pos,
                                 !.file_size = record.file_size,
                                 !.index = record.index]
    /\ UNCHANGED <<indexVars, loaderVars, queryFileVars, threads, assetVars, analyticsVars>>

\* the loop is over: return index
load_return ==
    /\ reader.status = "reading"
    /\ ~MoreRecords(reader.file_size)
    /\ reader' = WithExit(reader, "returned", "none")
    /\ UNCHANGED <<indexVars, loaderVars, queryFileVars, threads, assetVars, analyticsVars>>

NextReader == load_open \/ load_record \/ load_return

\* the call runs on: a step that can be taken is taken
SpecReader == InitReader /\ [][NextReader]_vars /\ WF_vars(NextReader)


\* ---- C26 ----
\* load has returned an index or raised
C26_Ended == reader.status \in {"returned", "raised"}

\* C26: load terminates on every finite file: each iteration of the record loop
\* strictly decreases the remaining byte budget or raises, so the call ends by returning
\* an index or by raising, and the file is closed on both paths.
C26_Terminates ==
    /\ [][reader.status = "reading" /\ MoreRecords(reader.file_size) =>
             \/ reader'.status = "raised"
             \/ reader'.status = "reading" /\ reader'.file_size < reader.file_size]_vars
    /\ <>C26_Ended
    /\ [](C26_Ended => ~reader.open)

\* a file of two records was read to its end and closed
C26_Witness ==
    /\ reader.status = "returned"
    /\ ~reader.open
    /\ reader.pos = Len(disk.data)
    /\ reader.pos >= 4 + 2 * (2 + 1 + 2)
    /\ reader.file_size = 0

\* a file that ends inside its second record was given up and closed
C26_WitnessRaised ==
    /\ reader.status = "raised"
    /\ reader.error = "struct.error"
    /\ reader.index # <<>>
    /\ ~reader.open


\* ---- C27 ----
\* what load is to return for a stream of these records
C27_Decoded(records) ==
    /\ Keys(reader.index) = {records[i].key : i \in DOMAIN records}
    /\ DistinctKeys(reader.index)
    /\ \A i \in DOMAIN records :
          (\A j \in DOMAIN records : j > i => records[j].key # records[i].key) =>
              DictGet(reader.index, records[i].key) = records[i].value

\* C27: when a well-formed byte stream holds several records with the same term, load
\* returns a mapping with a single entry for that term whose postings are those of the
\* last such record (not merged with the earlier ones), and a record with postings
\* count 0 decodes to an empty posting list.
C27_LastRecordWins ==
    \A header \in StreamHeaders, records \in RecordLists :
        reader.status \in {"returned", "raised"}
          /\ disk = File(Stream(byteorder, header, records)) =>
            /\ reader.status = "returned"
            /\ C27_Decoded(records)
            /\ StructStoragePolicy_load(byteorder, disk) = [status |-> "ok", value |-> reader.index]

\* a stream with two records of one term, the first with a posting and the second with
\* none, was decoded to one entry with no postings
C27_Witness ==
    /\ reader.status = "returned"
    /\ Len(reader.index) = 1
    /\ reader.index[1].value = <<>>
    /\ \E header \in StreamHeaders, records \in RecordLists :
          /\ disk = File(Stream(byteorder, header, records))
          /\ Len(records) = 2
          /\ records[1].key = records[2].key
          /\ records[1].value # <<>>
          /\ records[2].value = <<>>


\* ---- C28 ----
\* the index that load reads back from the file
C28_Stored == StructStoragePolicy_load(byteorder, disk)

C28_Header == UnpackNative(byteorder, Take(disk.data, 4))

\* C28: in every file dump wrote successfully for a built index the header is the
\* largest posting id of the index, every posting id in the file is at most the header,
\* and every postings count fits the chosen value width (none exceeds 65535 when the
\* 2-byte width is chosen).
C28_HeaderBoundsFile ==
    pc = "dumped" /\ dumped.status = "ok" =>
        /\ C28_Header = MaxId(index)
        /\ C28_Stored.status = "ok"
        /\ Len(C28_Stored.value) = Len(index)
        /\ \A k \in DOMAIN C28_Stored.value :
              /\ \A m \in DOMAIN C28_Stored.value[k].value :
                    C28_Stored.value[k].value[m] <= C28_Header
              /\ Fits(dumped.fmt, Len(C28_Stored.value[k].value))
              /\ dumped.fmt = "H" => Len(C28_Stored.value[k].value) <= 65535
              /\ FieldIs(disk.data, Off(index, k, SizeOf(dumped.fmt)) + 2 + KeyLen(index, k),
                         SizeOf(dumped.fmt), Len(index[k].value))

\* two terms were written, the second with the larger id
C28_Witness ==
    /\ pc = "dumped" /\ dumped.status = "ok"
    /\ Len(index) = 2
    /\ C28_Header = 65535
    /\ 65535 \notin Range(index[1].value)
    /\ 65535 \in Range(index[2].value)

\* ---- C29 ----
\* the ids are in 0..2^32-1 (every term of the model is shorter than 65535 bytes)
C29_InRange == \A d \in Keys(documents) : d >= 0 /\ Fits("I", d)

\* C29: a built index has only non-empty posting lists, so for documents with ids in
\* 0..2^32-1 and terms of at most 65535 UTF-8 bytes build-then-dump fails if and only if
\* no document contains any token (the built index is empty).
C29_FailsIffEmpty ==
    [][/\ pc = "start" /\ pc' = "built" =>
            \A k \in DOMAIN index' : index'[k].value # <<>>
       /\ pc = "built" /\ pc' = "dumped" /\ C29_InRange =>
            /\ dumped'.status # "ok" <=> index = <<>>
            /\ index = <<>> <=> \A d \in Keys(documents) : TokensOf(d) = {}]_vars

\* documents without a token gave an empty index and the dump failed
C29_Witness ==
    /\ pc = "dumped"
    /\ documents # <<>>
    /\ C29_InRange
    /\ index = <<>>
    /\ dumped.status = "ValueError"

\* a document with a token beside one without: the dump went through
C29_WitnessOk ==
    /\ pc = "dumped"
    /\ C29_InRange
    /\ \E d \in Keys(documents) : TokensOf(d) = {}
    /\ index # <<>>
    /\ dumped.status = "ok"


(***************************************************************************)
(* Two /api/asset/add requests for one name handled at the same time: each *)
(* handler is two steps, the containment check and the append.             *)
(***************************************************************************)
\* a request the server has accepted and not begun to handle
Accepted(new_asset) == [new_asset |-> new_asset, at |-> "contains", status |-> 0]

InitRace ==
    /\ pc = "serving"
    /\ byteorder = "little"
    /\ documents = <<>>
    /\ index = <<>>
    /\ disk = NoFile
    /\ dumped = NotDumped
    /\ cut = -1
    /\ loaded = NotRun
    /\ words = <<>>
    /\ answer = NotRun
    /\ bank \in Banks
    /\ history = <<>>
    /\ cbr = NoCbr
    /\ \E first \in Assets, second \in Assets :
          /\ first.name = second.name
          /\ inflight = <<Accepted(first), Accepted(second)>>
    /\ NoLoader /\ NoQueryFile /\ NoThreads /\ NoAnalytics /\ NoReader

\* if app.bank.contains(new_asset): return make_response("Name has already exist", 403)
add_contains(t) ==
    /\ inflight[t].at = "contains"
    /\ IF Bank_contains(bank, inflight[t].new_asset)
       THEN /\ inflight' = [inflight EXCEPT ![t].at = "done", ![t].status = ForbiddenStatus]
            /\ history' = Append(history,
                  Response("add", inflight[t].new_asset.name, ForbiddenStatus,
                           <<"Name has already exist">>))
       ELSE /\ inflight' = [inflight EXCEPT ![t].at = "add"]
            /\ history' = history
    /\ UNCHANGED <<bank, cbr>>
    /\ UNCHANGED <<indexVars, loaderVars, queryFileVars, threads, analyticsVars, readerVars>>

\* app.bank.add(new_asset); return make_response(..., 200)
add_add(t) ==
    /\ inflight[t].at = "add"
    /\ bank' = Bank_add(bank, inflight[t].new_asset)
    /\ inflight' = [inflight EXCEPT ![t].at = "done", ![t].status = OkStatus]
    /\ history' = Append(history,
          Response("add", inflight[t].new_asset.name, OkStatus,
                   <<"Asset '", inflight[t].new_asset.name, "' was successfully added">>))
    /\ UNCHANGED cbr
    /\ UNCHANGED <<indexVars, loaderVars, queryFileVars, threads, analyticsVars, readerVars>>

NextRace == \E t \in Threads : add_contains(t) \/ add_add(t)

SpecRace == InitRace /\ [][NextRace]_vars

\* ---- C30 ----
C30_Answered == \A t \in DOMAIN inflight : inflight[t].at = "done"

\* C30: when two add requests for the same name are handled concurrently, the check
\* and the append of each interleaved arbitrarily, at most one of them returns 200 and
\* the bank ends with at most one asset of that name.
C30_AtMostOneAdded ==
    C30_Answered =>
        /\ Cardinality({t \in DOMAIN inflight : inflight[t].status = 200}) <= 1
        /\ Cardinality({i \in DOMAIN bank : bank[i].name = inflight[1].new_asset.name}) <= 1

====
